---- MODULE Spec2Model ----
(***************************************************************************)
(* AudiobookOrganizer: the coordinator organize_audiobooks_main, the       *)
(* logical-book grouper group_physical_folders_into_logical_books and the  *)
(* destination namer of process_single_logical_book_or_part.               *)
(*                                                                         *)
(* Text is a sequence of one-character strings, so that concatenation,     *)
(* substring search, trimming and truncation are computed, not assumed.    *)
(* Book and part numbers are Python floats with at most one fractional     *)
(* digit; the model holds them in tenths (25 is 2.5, 120 is 12.0).         *)
(***************************************************************************)
EXTENDS Integers, Sequences, FiniteSets, TLC

VARIABLES
  folder_metadata,                   \* what _get_physical_folder_metadata returns for each physical folder
  pc,                                \* position of organize_audiobooks_main
  prescan_pending,                   \* pre-scan pool tasks whose result has not been yielded yet
  physical_folder_metadata_results,  \* results collected from imap_unordered, in arrival order
  logical_books_for_processing,      \* first value returned by the grouper
  series_max_numbers,                \* second value returned by the grouper
  ambiguous_base_names,              \* third value returned by the grouper
  pool_args_process,                 \* argument tuples built for the placement pool
  process_pending,                   \* placement tasks not run yet
  process_results,                   \* index of a placement task -> what the task computed
  task_book_info,                    \* the logical book or part of the placement task looked at file by file
  all_files_in_folder,               \* os.listdir of its physical folder, in listing order
  task_pc,                           \* position of that task: "idle", "audio", "other", "returned"
  loop_index,                        \* files the current loop of the task has passed
  primary_cover_linked,              \* the flag of the same name
  link_attempts,                     \* the os.link calls of the task, in order, with their outcome
  text_input,                        \* the argument of a text function under study
  text_output,                       \* what the function returned for it
  all_source_files_found_during_scan, \* the set of the same name: files not yet accounted for
  swept_to_leftbehind,               \* the files the final sweep handed to hard_link_to_leftbehind
  source_path,                       \* the --source-path argument of the script
  file_system,                       \* the directories and files that exist, as absolute paths
  file_system_calls                  \* the calls the script made that change the file system, in order

vars == <<folder_metadata, pc, prescan_pending, physical_folder_metadata_results,
          logical_books_for_processing, series_max_numbers, ambiguous_base_names,
          pool_args_process, process_pending, process_results,
          task_book_info, all_files_in_folder, task_pc, loop_index,
          primary_cover_linked, link_attempts, text_input, text_output,
          all_source_files_found_during_scan, swept_to_leftbehind,
          source_path, file_system, file_system_calls>>

\* the variables of one placement task looked at file by file
placement_vars == <<task_book_info, all_files_in_folder, task_pc, loop_index,
                    primary_cover_linked, link_attempts>>

\* the variables of one call of a text function
text_vars == <<text_input, text_output>>

\* the variables of the script's work on the file system
file_system_vars == <<source_path, file_system, file_system_calls>>

\* the variables of the sweep at the end of a run
sweep_vars == <<all_source_files_found_during_scan, swept_to_leftbehind>>

\* the variables of a run of organize_audiobooks_main
run_vars == <<folder_metadata, pc, prescan_pending, physical_folder_metadata_results,
              logical_books_for_processing, series_max_numbers, ambiguous_base_names,
              pool_args_process, process_pending, process_results, sweep_vars>>

----------------------------------------------------------------------------
(* Bounds *)

\* number of physical book folders found under the source root
MaxFolders == 3

----------------------------------------------------------------------------
(* Python values *)

\* Python's None where a string is expected: no text has a four-character element
None == <<"None">>

\* Python's None where a number is expected
NoNumber == 0 - 1

\* truthiness of an optional string: None and '' are falsy
Truthy(s) == s /= None /\ s /= <<>>

Min(S) == CHOOSE x \in S : \A y \in S : x <= y

Max(S) == CHOOSE x \in S : \A y \in S : x >= y

Range(seq) == {seq[k] : k \in DOMAIN seq}

Whitespace == {" ", "\t", "\n"}

\* str.strip(chars)
strip_chars(s, chars) ==
  LET keep == {i \in 1..Len(s) : s[i] \notin chars}
  IN  IF keep = {} THEN <<>> ELSE SubSeq(s, Min(keep), Max(keep))

\* str.strip()
strip(s) == strip_chars(s, Whitespace)

\* the operator `sub in s` on strings
Contains(sub, s) ==
  \E k \in 0..(Len(s) - Len(sub)) : SubSeq(s, k + 1, k + Len(sub)) = sub

UpperCase == <<"A", "B", "C", "D", "E", "F", "G", "H", "I", "J", "K", "L", "M",
               "N", "O", "P", "Q", "R", "S", "T", "U", "V", "W", "X", "Y", "Z">>

LowerCase == <<"a", "b", "c", "d", "e", "f", "g", "h", "i", "j", "k", "l", "m",
               "n", "o", "p", "q", "r", "s", "t", "u", "v", "w", "x", "y", "z">>

\* str.lower()
lower(s) ==
  [i \in 1..Len(s) |->
     IF \E k \in 1..Len(UpperCase) : UpperCase[k] = s[i]
     THEN LowerCase[CHOOSE k \in 1..Len(UpperCase) : UpperCase[k] = s[i]]
     ELSE s[i]]

Digits == <<"0", "1", "2", "3", "4", "5", "6", "7", "8", "9">>

\* str(n) for an integer n >= 0
RECURSIVE IntToStr(_)
IntToStr(n) ==
  IF n < 10 THEN <<Digits[n + 1]>> ELSE IntToStr(n \div 10) \o <<Digits[(n % 10) + 1]>>

\* f"{n:0{width}d}" for an integer n >= 0
RECURSIVE ZeroPad(_, _)
ZeroPad(n, width) ==
  LET s == IntToStr(n)
  IN  IF Len(s) >= width THEN s ELSE <<"0">> \o ZeroPad(n, width - 1)

\* int(x) for a float x >= 0 held in tenths
IntPart(x) == x \div 10

\* str(x) for a float x >= 0 held in tenths: '2.5', '12.0'
FloatToStr(x) == IntToStr(x \div 10) \o <<".">> \o <<Digits[(x % 10) + 1]>>

----------------------------------------------------------------------------
(* file_system_utils.sanitize_filename *)

MaxNameLen == 200

InvalidChars == {"<", ">", ":", "\"", "/", "\\", "|", "?", "*"}

\* re.sub(r'\s+', ' ', s): every run of whitespace becomes one space
CollapseWhitespace(s) ==
  LET marked == [i \in 1..Len(s) |->
                   [c     |-> IF s[i] \in Whitespace THEN " " ELSE s[i],
                    follows_whitespace |-> s[i] \in Whitespace /\ i > 1 /\ s[i - 1] \in Whitespace]]
      kept   == SelectSeq(marked, LAMBDA m : ~m.follows_whitespace)
  IN  [k \in 1..Len(kept) |-> kept[k].c]

sanitize_filename(name) ==
  IF ~Truthy(name) THEN <<"U", "n", "t", "i", "t", "l", "e", "d">>
  ELSE LET replaced  == [i \in 1..Len(name) |-> IF name[i] \in InvalidChars THEN "_" ELSE name[i]]
           stripped  == strip_chars(replaced, {" ", "."})
           sanitized == CollapseWhitespace(stripped)
       IN  IF Len(sanitized) > MaxNameLen THEN SubSeq(sanitized, 1, MaxNameLen) ELSE sanitized

----------------------------------------------------------------------------
(* metadata_utils.normalize_publisher_name *)

replacements ==
  <<
     <<<<"g", "r", "a", "p", "h", "i", "c", " ", "a", "u", "d", "i", "o">>,
       <<"G", "r", "a", "p", "h", "i", "c", " ", "A", "u", "d", "i", "o">>>>,
     <<<<"a", "u", "d", "i", "b", "l", "e", " ", "s", "t", "u", "d", "i", "o", "s">>,
       <<"A", "u", "d", "i", "b", "l", "e">>>>,
     <<<<"a", "u", "d", "i", "b", "l", "e">>,
       <<"A", "u", "d", "i", "b", "l", "e">>>>,
     <<<<"h", "a", "c", "h", "e", "t", "t", "e", " ", "a", "u", "d", "i", "o">>,
       <<"H", "a", "c", "h", "e", "t", "t", "e", " ", "A", "u", "d", "i", "o">>>>,
     <<<<"r", "a", "n", "d", "o", "m", " ", "h", "o", "u", "s", "e", " ", "a", "u", "d", "i", "o">>,
       <<"R", "a", "n", "d", "o", "m", " ", "H", "o", "u", "s", "e", " ", "A", "u", "d", "i", "o">>>>,
     <<<<"m", "a", "c", "m", "i", "l", "l", "a", "n", " ", "a", "u", "d", "i", "o">>,
       <<"M", "a", "c", "m", "i", "l", "l", "a", "n", " ", "A", "u", "d", "i", "o">>>>,
     <<<<"h", "a", "r", "p", "e", "r", "a", "u", "d", "i", "o">>,
       <<"H", "a", "r", "p", "e", "r", "A", "u", "d", "i", "o">>>>,
     <<<<"s", "i", "m", "o", "n", " ", "&", " ", "s", "c", "h", "u", "s", "t", "e", "r", " ", "a", "u", "d", "i", "o">>,
       <<"S", "i", "m", "o", "n", " ", "&", " ", "S", "c", "h", "u", "s", "t", "e", "r", " ", "A", "u", "d", "i", "o">>>>,
     <<<<"p", "r", "h", " ", "a", "u", "d", "i", "o">>,
       <<"P", "R", "H", " ", "A", "u", "d", "i", "o">>>>,
     <<<<"t", "a", "n", "t", "o", "r", " ", "a", "u", "d", "i", "o">>,
       <<"T", "a", "n", "t", "o", "r", " ", "A", "u", "d", "i", "o">>>>,
     <<<<"b", "r", "i", "l", "l", "i", "a", "n", "c", "e", " ", "a", "u", "d", "i", "o">>,
       <<"B", "r", "i", "l", "l", "i", "a", "n", "c", "e", " ", "A", "u", "d", "i", "o">>>>,
     <<<<"p", "o", "d", "i", "u", "m", " ", "a", "u", "d", "i", "o">>,
       <<"P", "o", "d", "i", "u", "m", " ", "A", "u", "d", "i", "o">>>>,
     <<<<"d", "r", "e", "a", "m", "s", "c", "a", "p", "e", " ", "m", "e", "d", "i", "a">>,
       <<"D", "r", "e", "a", "m", "s", "c", "a", "p", "e", " ", "M", "e", "d", "i", "a">>>>,
     <<<<"r", "e", "c", "o", "r", "d", "e", "d", " ", "b", "o", "o", "k", "s">>,
       <<"R", "e", "c", "o", "r", "d", "e", "d", " ", "B", "o", "o", "k", "s">>>>,
     <<<<"b", "l", "a", "c", "k", "s", "t", "o", "n", "e", " ", "a", "u", "d", "i", "o">>,
       <<"B", "l", "a", "c", "k", "s", "t", "o", "n", "e", " ", "A", "u", "d", "i", "o">>>>,
     <<<<"s", "c", "h", "o", "l", "a", "s", "t", "i", "c", " ", "a", "u", "d", "i", "o">>,
       <<"S", "c", "h", "o", "l", "a", "s", "t", "i", "c", " ", "A", "u", "d", "i", "o">>>>,
     <<<<"m", "i", "c", "h", "a", "e", "l", "-", "s", "c", "o", "t", "t", " ", "e", "a", "r", "l", "e">>,
       <<"S", "e", "l", "f", "-", "P", "u", "b", "l", "i", "s", "h", "e", "d">>>>,
     <<<<"a", "c", "t", "o", "r", "s", " ", "e", "v", "e", "r", "y", "w", "h", "e", "r", "e">>,
       <<"A", "c", "t", "o", "r", "s", " ", "E", "v", "e", "r", "y", "w", "h", "e", "r", "e">>>>,
     <<<<"g", "r", "a", "p", "h", "i", "c">>,
       <<"G", "r", "a", "p", "h", "i", "c", " ", "A", "u", "d", "i", "o">>>>
  >>

normalize_publisher_name(publisher_name) ==
  IF ~Truthy(publisher_name) THEN None
  ELSE LET normalized == strip(lower(publisher_name))
           equal      == {k \in 1..Len(replacements) : replacements[k][1] = normalized}
           within     == {k \in 1..Len(replacements) : Contains(replacements[k][1], normalized)}
       IN  IF equal /= {} THEN replacements[Min(equal)][2]
           ELSE IF within /= {} THEN replacements[Min(within)][2]
           ELSE sanitize_filename(publisher_name)

----------------------------------------------------------------------------
(* main.find_longest_common_substring *)

find_longest_common_substring(strings) ==
  IF Len(strings) = 0 THEN <<>>
  ELSE IF Len(strings) = 1 THEN strings[1]
  ELSE LET s1     == strings[1]
           common == {p \in (1..Len(s1)) \X (1..Len(s1)) :
                        /\ p[1] <= p[2]
                        /\ \A k \in 2..Len(strings) : Contains(SubSeq(s1, p[1], p[2]), strings[k])}
           length == Max({p[2] - p[1] + 1 : p \in common})
           \* a later substring replaces the current one only when strictly longer
           start  == Min({p[1] : p \in {q \in common : q[2] - q[1] + 1 = length}})
       IN  IF common = {} THEN <<>> ELSE strip(SubSeq(s1, start, start + length - 1))

----------------------------------------------------------------------------
(* main.group_physical_folders_into_logical_books *)

\* combined_metadata of a folder whose scan recovered no metadata (Python None)
NoMetadata == [absent |-> TRUE]

\* logical_book_key with the publisher left out of the tuple
logical_book_key_without_publisher(res) ==
  <<res.combined_metadata.sanitized_author,
    res.combined_metadata.sanitized_series_name,
    res.combined_metadata.series_book_num_for_logic,
    None>>

\* the tuple (author, series, book_num, publisher) that identifies a logical book
logical_book_key(res) ==
  <<res.combined_metadata.sanitized_author,
    res.combined_metadata.sanitized_series_name,
    res.combined_metadata.series_book_num_for_logic,
    res.combined_metadata.publisher>>

\* the dict logical_books_grouped_by_key after the first loop, as the sequence of
\* its (key, list) items in insertion order
RECURSIVE logical_books_grouped_by_key(_)
logical_books_grouped_by_key(results) ==
  IF results = <<>> THEN <<>>
  ELSE LET before == logical_books_grouped_by_key(SubSeq(results, 1, Len(results) - 1))
           res    == results[Len(results)]
           key    == logical_book_key(res)
           at     == {k \in 1..Len(before) : before[k][1] = key}
       IN  IF res.combined_metadata = NoMetadata THEN before
           ELSE IF at = {} THEN Append(before, <<key, <<res>>>>)
           ELSE [before EXCEPT ![Min(at)] = <<key, Append(@[2], res)>>]

\* the sort key of list.sort at the head of the multi-part branch
part_sort_key(res) ==
  IF res.combined_metadata.extracted_part_number /= NoNumber
  THEN res.combined_metadata.extracted_part_number
  ELSE 0

\* list.sort(key=...): a stable sort
RECURSIVE sort_by_part_number(_)
sort_by_part_number(list) ==
  IF Len(list) <= 1 THEN list
  ELSE LET front == sort_by_part_number(SubSeq(list, 1, Len(list) - 1))
           x     == list[Len(list)]
           n     == Cardinality({k \in 1..Len(front) : part_sort_key(front[k]) <= part_sort_key(x)})
       IN  SubSeq(front, 1, n) \o <<x>> \o SubSeq(front, n + 1, Len(front))

\* the entry appended for a key with exactly one physical folder
single_book_info(key, res) ==
  [author                  |-> key[1],
   series_name             |-> key[2],
   series_book_num         |-> key[3],
   core_book_title         |-> res.combined_metadata.sanitized_core_book_title_for_grouping,
   publisher               |-> key[4],
   performer               |-> res.combined_metadata.performer,
   book_has_embedded_image |-> res.book_has_embedded_image,
   physical_folder_paths   |-> <<res.physical_folder_path>>,
   is_multi_part           |-> FALSE,
   part_display_name       |-> None]

\* the title shared by the parts of one key
shared_book_title(key, list) ==
  LET titles_for_common_substring == [k \in 1..Len(list) |-> list[k].combined_metadata.cleaned_title_for_common]
      common   == find_longest_common_substring(titles_for_common_substring)
      fallback == strip((IF Truthy(key[2]) THEN key[2] ELSE <<"B", "o", "o", "k">>)
                        \o <<" ">>
                        \o (IF key[3] /= NoNumber THEN FloatToStr(key[3]) ELSE <<>>))
                  \o <<" ", "(", "M", "u", "l", "t", "i", "-", "P", "a", "r", "t", ")">>
  IN  IF common /= <<>> THEN common ELSE fallback

\* part_display_name that always falls back to the position in the sorted list
part_display_name_by_position(res, i) ==
  <<"(", "P", "a", "r", "t", " ">> \o IntToStr(i) \o <<")">>

\* the label of the part at 1-based position i of the sorted list
part_display_name(res, i) ==
  LET part_designation == res.combined_metadata.extracted_part_designation
      part_num         == res.combined_metadata.extracted_part_number
      part_total       == res.combined_metadata.extracted_total_parts
      designation      == IF Truthy(part_designation) THEN part_designation ELSE <<"P", "a", "r", "t">>
      part_padding     == Max({Len(IntToStr(IntPart(part_num))), Len(IntToStr(part_total))})
  IN  IF part_num /= NoNumber /\ part_total /= NoNumber
      THEN <<"(">> \o designation \o <<" ">> \o ZeroPad(IntPart(part_num), part_padding)
                   \o <<" ", "o", "f", " ">> \o ZeroPad(part_total, part_padding) \o <<")">>
      ELSE IF part_num /= NoNumber
      THEN <<"(">> \o designation \o <<" ">> \o IntToStr(IntPart(part_num)) \o <<")">>
      ELSE <<"(", "P", "a", "r", "t", " ">> \o IntToStr(i) \o <<")">>

\* part_info that keeps each folder's own core title instead of the shared title
part_info_own_title(key, shared_title, res, i) ==
  [author                  |-> key[1],
   series_name             |-> key[2],
   series_book_num         |-> key[3],
   core_book_title         |-> res.combined_metadata.sanitized_core_book_title_for_grouping,
   publisher               |-> res.combined_metadata.publisher,
   performer               |-> res.combined_metadata.performer,
   book_has_embedded_image |-> res.book_has_embedded_image,
   physical_folder_paths   |-> <<res.physical_folder_path>>,
   is_multi_part           |-> TRUE,
   part_display_name       |-> part_display_name(res, i),
   part_index_for_multi_part_parent |-> i]

\* the entry appended for the part at position i of a key with several folders
part_info(key, shared_title, res, i) ==
  [author                  |-> key[1],
   series_name             |-> key[2],
   series_book_num         |-> key[3],
   core_book_title         |-> sanitize_filename(shared_title),
   publisher               |-> res.combined_metadata.publisher,
   performer               |-> res.combined_metadata.performer,
   book_has_embedded_image |-> res.book_has_embedded_image,
   physical_folder_paths   |-> <<res.physical_folder_path>>,
   is_multi_part           |-> TRUE,
   part_display_name       |-> part_display_name(res, i),
   part_index_for_multi_part_parent |-> i]

\* the entries one (key, list) item contributes to final_logical_books_for_processing
entries_of_group(item) ==
  LET key  == item[1]
      list == item[2]
  IN  IF Len(list) = 1 THEN <<single_book_info(key, list[1])>>
      ELSE LET title  == shared_book_title(key, list)
               sorted == sort_by_part_number(list)
           IN  [i \in 1..Len(sorted) |-> part_info(key, title, sorted[i], i)]

RECURSIVE refine_groups(_)
refine_groups(groups) ==
  IF groups = <<>> THEN <<>>
  ELSE entries_of_group(Head(groups)) \o refine_groups(Tail(groups))

final_logical_books_for_processing(results) ==
  refine_groups(logical_books_grouped_by_key(results))

\* series name when present, else core title
base_name_for_ambiguity_check(logical_book_info) ==
  IF Truthy(logical_book_info.series_name)
  THEN logical_book_info.series_name
  ELSE logical_book_info.core_book_title

\* variation_of without the replacement of falsy values by None
variation_of_raw(logical_book_info) ==
  <<logical_book_info.publisher, logical_book_info.performer>>

\* the (publisher, performer) pair added for one entry: falsy values become None
variation_of(logical_book_info) ==
  <<IF Truthy(logical_book_info.publisher) THEN logical_book_info.publisher ELSE None,
    IF Truthy(logical_book_info.performer) THEN logical_book_info.performer ELSE None>>

\* the dict (author, base_name) -> set of (publisher, performer) after the loop
RECURSIVE temp_base_name_tracker(_)
temp_base_name_tracker(books) ==
  IF books = <<>> THEN <<>>
  ELSE LET before == temp_base_name_tracker(SubSeq(books, 1, Len(books) - 1))
           info   == books[Len(books)]
           key    == <<info.author, base_name_for_ambiguity_check(info)>>
       IN  IF key \in DOMAIN before
           THEN [before EXCEPT ![key] = @ \cup {variation_of(info)}]
           ELSE before @@ (key :> {variation_of(info)})

compute_ambiguous_base_names(books) ==
  LET tracker == temp_base_name_tracker(books)
  IN  {key \in DOMAIN tracker : Cardinality(tracker[key]) > 1}

\* series_max_numbers that keeps the first book number seen for a series
RECURSIVE series_max_numbers_first_seen(_)
series_max_numbers_first_seen(books) ==
  IF books = <<>> THEN <<>>
  ELSE LET before == series_max_numbers_first_seen(SubSeq(books, 1, Len(books) - 1))
           info   == books[Len(books)]
       IN  IF Truthy(info.series_name) /\ info.series_book_num /= NoNumber
              /\ info.series_name \notin DOMAIN before
           THEN before @@ (info.series_name :> info.series_book_num)
           ELSE before

\* the dict series name -> largest book number after the loop
RECURSIVE compute_series_max_numbers(_)
compute_series_max_numbers(books) ==
  IF books = <<>> THEN <<>>
  ELSE LET before == compute_series_max_numbers(SubSeq(books, 1, Len(books) - 1))
           info   == books[Len(books)]
           name   == info.series_name
           number == info.series_book_num
       IN  IF Truthy(name) /\ number /= NoNumber
           THEN IF name \notin DOMAIN before
                THEN before @@ (name :> number)
                ELSE [before EXCEPT ![name] = Max({@, number})]
           ELSE before

----------------------------------------------------------------------------
(* main.process_single_logical_book_or_part: the destination path *)

\* the zero-padded series number and ' - ', or '' without series name and number
final_book_folder_name_prefix(logical_book_info, max_numbers) ==
  LET name    == logical_book_info.series_name
      number  == logical_book_info.series_book_num
      \* series_max_numbers.get(sanitized_series_name, series_book_num_for_folder)
      max_series_num == IF name \in DOMAIN max_numbers THEN max_numbers[name] ELSE number
      padding_length_for_series_num ==
        IF IntPart(max_series_num) >= 10 THEN Len(IntToStr(IntPart(max_series_num))) ELSE 1
      int_part      == IntPart(number)
      frac_part_str == IF number /= 10 * int_part THEN <<".", Digits[(number % 10) + 1]>> ELSE <<>>
      padded_series_number_str ==
        IF padding_length_for_series_num > 1
        THEN ZeroPad(int_part, padding_length_for_series_num) \o frac_part_str
        ELSE IntToStr(int_part) \o frac_part_str
  IN  IF Truthy(name) /\ number /= NoNumber
      THEN padded_series_number_str \o <<" ", "-", " ">>
      ELSE <<>>

\* book_or_series_distinguisher_to_apply with the performer tried before the publisher
distinguisher_performer_first(logical_book_info, ambiguous) ==
  LET check_base_name == IF Truthy(logical_book_info.series_name)
                         THEN logical_book_info.series_name
                         ELSE logical_book_info.core_book_title
  IN  IF <<logical_book_info.author, check_base_name>> \in ambiguous
      THEN IF Truthy(logical_book_info.performer)
           THEN <<" ", "(", "N", "a", "r", "r", "a", "t", "e", "d", " ", "b", "y", " ">>
                \o normalize_publisher_name(logical_book_info.performer) \o <<")">>
           ELSE IF Truthy(logical_book_info.publisher)
           THEN <<" ", "(", "P", "u", "b", "l", "i", "s", "h", "e", "d", " ", "b", "y", " ">>
                \o normalize_publisher_name(logical_book_info.publisher) \o <<")">>
           ELSE <<>>
      ELSE <<>>

\* the suffix that tells apart books of one ambiguous (author, base name)
book_or_series_distinguisher_to_apply(logical_book_info, ambiguous) ==
  LET check_base_name == IF Truthy(logical_book_info.series_name)
                         THEN logical_book_info.series_name
                         ELSE logical_book_info.core_book_title
  IN  IF <<logical_book_info.author, check_base_name>> \in ambiguous
      THEN IF Truthy(logical_book_info.publisher)
           THEN <<" ", "(", "P", "u", "b", "l", "i", "s", "h", "e", "d", " ", "b", "y", " ">>
                \o normalize_publisher_name(logical_book_info.publisher) \o <<")">>
           ELSE IF Truthy(logical_book_info.performer)
           THEN <<" ", "(", "N", "a", "r", "r", "a", "t", "e", "d", " ", "b", "y", " ">>
                \o normalize_publisher_name(logical_book_info.performer) \o <<")">>
           ELSE <<>>
      ELSE <<>>

\* dest_book_base_path below dest_base_dir, as the sequence of its folder names
dest_book_base_path(logical_book_info, max_numbers, ambiguous) ==
  LET prefix        == final_book_folder_name_prefix(logical_book_info, max_numbers)
      distinguisher == book_or_series_distinguisher_to_apply(logical_book_info, ambiguous)
  IN  IF Truthy(logical_book_info.series_name)
      THEN <<logical_book_info.author,
             sanitize_filename(logical_book_info.series_name \o distinguisher),
             sanitize_filename(prefix \o logical_book_info.core_book_title)>>
      ELSE <<logical_book_info.author,
             sanitize_filename(prefix \o logical_book_info.core_book_title \o distinguisher)>>

\* dest_book_path that names the folder of a part by the label as it stands
dest_book_path_label_unstripped(logical_book_info, max_numbers, ambiguous) ==
  LET base == dest_book_base_path(logical_book_info, max_numbers, ambiguous)
  IN  IF logical_book_info.is_multi_part /\ Truthy(logical_book_info.part_display_name)
      THEN Append(base, sanitize_filename(logical_book_info.part_display_name))
      ELSE base

\* dest_book_path below dest_base_dir: a part of a multi-part book gets one more folder
dest_book_path(logical_book_info, max_numbers, ambiguous) ==
  LET base == dest_book_base_path(logical_book_info, max_numbers, ambiguous)
  IN  IF logical_book_info.is_multi_part /\ Truthy(logical_book_info.part_display_name)
      THEN Append(base, sanitize_filename(strip_chars(logical_book_info.part_display_name, {"(", ")"})))
      ELSE base

\* what one placement task computes from its argument tuple
process_single_logical_book_or_part(args) ==
  [logical_book_info    |-> args.logical_book_info,
   series_max_numbers   |-> args.series_max_numbers,
   ambiguous_base_names |-> args.ambiguous_base_names,
   final_book_folder_name_prefix |->
     final_book_folder_name_prefix(args.logical_book_info, args.series_max_numbers),
   book_or_series_distinguisher_to_apply |->
     book_or_series_distinguisher_to_apply(args.logical_book_info, args.ambiguous_base_names),
   dest_book_path       |->
     dest_book_path(args.logical_book_info, args.series_max_numbers, args.ambiguous_base_names)]

----------------------------------------------------------------------------
(* The physical folders of a run: the values the first loop of the grouper  *)
(* derives from each folder's tags and name.                                *)

Al == <<"A", "l">>

Bo == <<"B", "o">>

Saga == <<"S", "a", "g", "a">>

Dune == <<"D", "u", "n", "e">>

Emma == <<"E", "m", "m", "a">>

EmmaDune == <<"E", "m", "m", "a", " ", "D", "u", "n", "e">>

DuneEmma == <<"D", "u", "n", "e", " ", "E", "m", "m", "a">>

Audible == <<"A", "u", "d", "i", "b", "l", "e">>

GraphicAudio == <<"G", "r", "a", "p", "h", "i", "c", " ", "A", "u", "d", "i", "o">>

Kramer == <<"K", "r", "a", "m", "e", "r">>

Reading == <<"R", "e", "a", "d", "i", "n", "g">>

GraphicAudioCast == <<"G", "r", "a", "p", "h", "i", "c", " ", "A", "u", "d", "i", "o", " ", "C", "a", "s", "t">>

Part == <<"P", "a", "r", "t">>

Disc == <<"D", "i", "s", "c">>

\* one folder with metadata: author, series name, series number, core title,
\* part-stripped title, publisher, performer, part designation, part number,
\* total parts, embedded image
Scanned(author, series, number, core, common, publisher, performer, designation, part, total, image) ==
  [combined_metadata |->
     [sanitized_author |-> author,
      sanitized_series_name |-> series,
      series_book_num_for_logic |-> number,
      sanitized_core_book_title_for_grouping |-> core,
      cleaned_title_for_common |-> common,
      publisher |-> publisher,
      performer |-> performer,
      extracted_part_designation |-> designation,
      extracted_part_number |-> part,
      extracted_total_parts |-> total],
   book_has_embedded_image |-> image]

\* a folder without audio files, or whose audio files gave no metadata
Unscanned == [combined_metadata |-> NoMetadata, book_has_embedded_image |-> FALSE]

FolderPool ==
  << \* 'Dune': title Dune, publisher 'Audible Studios', performer Kramer
     Scanned(Al, None, NoNumber, Dune, Dune, Audible, Kramer, None, NoNumber, NoNumber, FALSE),
     \* 'Dune GA': title Dune, publisher 'graphic'
     Scanned(Al, None, NoNumber, Dune, Dune, GraphicAudio, None, None, NoNumber, NoNumber, FALSE),
     \* 'Dune (Part 1 of 2)': title Dune, performer Kramer
     Scanned(Al, None, NoNumber, Dune, Dune, None, Kramer, Part, 10, 2, TRUE),
     \* 'Dune (Part 2 of 2)': title Dune, performer Reading
     Scanned(Al, None, NoNumber, Dune, Dune, None, Reading, Part, 20, 2, FALSE),
     \* 'ED': title 'Emma Dune', performer ''
     Scanned(Al, None, NoNumber, EmmaDune, EmmaDune, None, <<>>, None, NoNumber, NoNumber, FALSE),
     \* 'DE': title 'Dune Emma'
     Scanned(Al, None, NoNumber, DuneEmma, DuneEmma, None, None, None, NoNumber, NoNumber, FALSE),
     \* 'S25': grouping 'Saga #2.5', title Emma, publisher 'audible', performer Kramer
     Scanned(Al, Saga, 25, Emma, Emma, Audible, Kramer, None, NoNumber, NoNumber, FALSE),
     \* 'S12': grouping 'Saga #12', title Dune, publisher Audible, performer Kramer
     Scanned(Al, Saga, 120, Dune, Dune, Audible, Kramer, None, NoNumber, NoNumber, FALSE),
     \* 'S1': grouping 'Saga #1', title Emma, publisher ' ', performer 'Graphic Audio Cast'
     Scanned(Al, Saga, 10, Emma, Emma, <<>>, GraphicAudioCast, None, NoNumber, NoNumber, FALSE),
     \* 'Bo (Disc 3 of 12)': artist Bo, title Dune, publisher Audible, performer Kramer
     Scanned(Bo, None, NoNumber, Dune, Dune, Audible, Kramer, Disc, 30, 12, FALSE),
     \* 'S25 (1)': grouping 'Saga #2.5', title Dune, publisher Audible, performer Kramer
     Scanned(Al, Saga, 25, Dune, Dune, Audible, Kramer, Part, 10, NoNumber, TRUE),
     \* 'ED A': title 'Emma Dune', publisher Audible
     Scanned(Al, None, NoNumber, EmmaDune, EmmaDune, Audible, None, None, NoNumber, NoNumber, FALSE),
     \* 'empty': no audio file
     Unscanned >>

\* the result record of the pre-scan worker for the folder at `path`
_get_physical_folder_metadata(path, scanned) ==
  [physical_folder_path    |-> path,
   combined_metadata       |-> scanned.combined_metadata,
   book_has_embedded_image |-> scanned.book_has_embedded_image]

----------------------------------------------------------------------------
(* main.organize_audiobooks_main *)

\* Folders are numbered in path order. Which folder holds which book is free;
\* exchanging two folders only renames them, so the choice is taken up to that.
\* no placement task is looked at file by file
NoPlacementTask ==
  /\ task_book_info = <<>>
  /\ all_files_in_folder = <<>>
  /\ task_pc = "idle"
  /\ loop_index = 0
  /\ primary_cover_linked = FALSE
  /\ link_attempts = <<>>

\* the files of the physical folder at `path`, as os.walk finds them
source_files(path) ==
  {<<path, <<"b", "o", "o", "k", ".", "m", "p", "3">>>>, <<path, <<"c", "o", "v", "e", "r", ".", "j", "p", "g">>>>}

\* the run has not collected the source files yet
NoSweep ==
  /\ all_source_files_found_during_scan = {}
  /\ swept_to_leftbehind = {}

\* no text function is under study
NoTextCall ==
  /\ text_input = <<>>
  /\ text_output = <<>>

\* the script's work on the file system is not looked at
NoFileSystem ==
  /\ source_path = <<>>
  /\ file_system = {}
  /\ file_system_calls = <<>>

Init ==
  /\ \E n \in 0..MaxFolders :
       \E choice \in [1..n -> 1..Len(FolderPool)] :
         /\ \A i \in 1..n : \A j \in 1..n : i <= j => choice[i] <= choice[j]
         /\ folder_metadata = [i \in 1..n |-> _get_physical_folder_metadata(i, FolderPool[choice[i]])]
         /\ prescan_pending = 1..n
  /\ pc = "prescan"
  /\ physical_folder_metadata_results = <<>>
  /\ logical_books_for_processing = <<>>
  /\ series_max_numbers = <<>>
  /\ ambiguous_base_names = {}
  /\ pool_args_process = <<>>
  /\ process_pending = {}
  /\ process_results = <<>>
  /\ NoSweep
  /\ NoPlacementTask
  /\ NoTextCall
  /\ NoFileSystem

\* imap_unordered yields the result of one pre-scan worker, in completion order
PrescanResult(i) ==
  /\ pc = "prescan"
  /\ i \in prescan_pending
  /\ physical_folder_metadata_results' = Append(physical_folder_metadata_results, folder_metadata[i])
  /\ prescan_pending' = prescan_pending \ {i}
  /\ UNCHANGED <<folder_metadata, pc, logical_books_for_processing, series_max_numbers,
                 ambiguous_base_names, pool_args_process, process_pending, process_results>>
  /\ UNCHANGED <<file_system_vars, placement_vars, text_vars, sweep_vars>>

\* a pre-scan loop that may be left before every task has yielded its result
prescan_complete_early == TRUE

\* the for loop over imap_unordered ends when every task has yielded its result
prescan_complete == prescan_pending = {}

\* the call of group_physical_folders_into_logical_books after the pre-scan pool
GroupFolders ==
  /\ pc = "prescan"
  /\ prescan_complete
  /\ LET books == final_logical_books_for_processing(physical_folder_metadata_results)
     IN  /\ logical_books_for_processing' = books
         /\ ambiguous_base_names' = compute_ambiguous_base_names(books)
         /\ series_max_numbers' = compute_series_max_numbers(books)
  /\ pc' = "build_args"
  /\ UNCHANGED <<folder_metadata, prescan_pending, physical_folder_metadata_results,
                 pool_args_process, process_pending, process_results>>
  /\ all_source_files_found_during_scan' =
       UNION {source_files(folder_metadata[i].physical_folder_path) : i \in DOMAIN folder_metadata}
  /\ UNCHANGED swept_to_leftbehind
  /\ UNCHANGED <<file_system_vars, placement_vars, text_vars>>

\* the argument tuple appended to pool_args_process for one logical book
pool_arg(logical_book_info) ==
  [logical_book_info    |-> logical_book_info,
   series_max_numbers   |-> series_max_numbers,
   ambiguous_base_names |-> ambiguous_base_names]

\* positions in logical_books_for_processing of the entries flagged is_multi_part
multi_part_positions ==
  {k \in 1..Len(logical_books_for_processing) : logical_books_for_processing[k].is_multi_part}

\* the loop that builds pool_args_process, when no entry is flagged is_multi_part
BuildPoolArgs ==
  /\ pc = "build_args"
  /\ multi_part_positions = {}
  /\ pool_args_process' = [k \in 1..Len(logical_books_for_processing) |->
                             pool_arg(logical_books_for_processing[k])]
  /\ process_pending' = 1..Len(logical_books_for_processing)
  /\ pc' = "process"
  /\ UNCHANGED <<folder_metadata, prescan_pending, physical_folder_metadata_results,
                 logical_books_for_processing, series_max_numbers, ambiguous_base_names,
                 process_results>>
  /\ UNCHANGED <<file_system_vars, placement_vars, text_vars, sweep_vars>>

\* the same loop, when it reaches an entry flagged is_multi_part: the entry has no
\* 'parts' key, logical_book_info['parts'] raises KeyError and the run ends in the
\* except clause of the script's entry point
BuildPoolArgsKeyError ==
  /\ pc = "build_args"
  /\ multi_part_positions /= {}
  /\ pool_args_process' = [k \in 1..(Min(multi_part_positions) - 1) |->
                             pool_arg(logical_books_for_processing[k])]
  /\ pc' = "unhandled_exception"
  /\ UNCHANGED <<folder_metadata, prescan_pending, physical_folder_metadata_results,
                 logical_books_for_processing, series_max_numbers, ambiguous_base_names,
                 process_pending, process_results>>
  /\ UNCHANGED <<file_system_vars, placement_vars, text_vars, sweep_vars>>

\* imap_unordered yields the result of one placement task, in completion order
ProcessResult(t) ==
  /\ pc = "process"
  /\ t \in process_pending
  /\ process_results' = process_results @@ (t :> process_single_logical_book_or_part(pool_args_process[t]))
  /\ process_pending' = process_pending \ {t}
  /\ UNCHANGED <<folder_metadata, pc, prescan_pending, physical_folder_metadata_results,
                 logical_books_for_processing, series_max_numbers, ambiguous_base_names,
                 pool_args_process>>
  /\ all_source_files_found_during_scan' =
       all_source_files_found_during_scan
       \ UNION {source_files(folder_path) :
                  folder_path \in Range(pool_args_process[t].logical_book_info.physical_folder_paths)}
  /\ UNCHANGED swept_to_leftbehind
  /\ UNCHANGED <<file_system_vars, placement_vars, text_vars>>

\* the placement pool is exhausted; the sweep hands every file still in
\* all_source_files_found_during_scan to hard_link_to_leftbehind and the run ends
Finish ==
  /\ pc = "process"
  /\ process_pending = {}
  /\ pc' = "done"
  /\ UNCHANGED <<folder_metadata, prescan_pending, physical_folder_metadata_results,
                 logical_books_for_processing, series_max_numbers, ambiguous_base_names,
                 pool_args_process, process_pending, process_results>>
  /\ swept_to_leftbehind' = all_source_files_found_during_scan
  /\ UNCHANGED all_source_files_found_during_scan
  /\ UNCHANGED <<file_system_vars, placement_vars, text_vars>>

Next ==
  \/ \E i \in 1..(MaxFolders + 1) : PrescanResult(i)
  \/ GroupFolders
  \/ BuildPoolArgs
  \/ BuildPoolArgsKeyError
  \/ \E t \in 1..(MaxFolders + 1) : ProcessResult(t)
  \/ Finish

Spec == Init /\ [][Next]_vars

----------------------------------------------------------------------------
(* main.process_single_logical_book_or_part: the files of one book or part *)

\* largest number of audio files of the part
MaxAudioFiles == 3

\* largest number of other files listed in its physical folder
MaxOtherFiles == 3

AUDIO_EXTENSIONS == {<<".", "m", "p", "3">>, <<".", "m", "4", "a">>, <<".", "m", "4", "b">>}

IMAGE_EXTENSIONS == {<<".", "j", "p", "g">>, <<".", "j", "p", "e", "g">>, <<".", "p", "n", "g">>, <<".", "g", "i", "f">>, <<".", "w", "e", "b", "p">>}

EBOOK_EXTENSIONS == {<<".", "e", "p", "u", "b">>, <<".", "m", "o", "b", "i">>, <<".", "a", "z", "w", "3">>, <<".", "p", "d", "f">>, <<".", "l", "i", "t">>, <<".", "p", "r", "c">>, <<".", "f", "b", "2">>, <<".", "t", "x", "t">>, <<".", "r", "t", "f">>}

\* str.endswith(suffix)
endswith(s, suffix) ==
  Len(s) >= Len(suffix) /\ SubSeq(s, Len(s) - Len(suffix) + 1, Len(s)) = suffix

\* str.endswith(tuple of suffixes)
endswith_any(s, suffixes) == \E suffix \in suffixes : endswith(s, suffix)

\* os.path.splitext(name)[1] of a name without directory part
splitext(name) ==
  LET dots == {k \in 1..Len(name) : name[k] = "."}
      last == Max(dots)
  IN  IF dots = {} \/ \A k \in 1..(last - 1) : name[k] = "." THEN <<>>
      ELSE SubSeq(name, last, Len(name))

\* stands for the ValueError int(text) raises for text that is no integer literal
ValueError == 0 - 2

\* int(text) for text without sign or underscore: the digits, in surrounding whitespace
RECURSIVE digits_value(_)
digits_value(s) ==
  IF Len(s) = 0 THEN 0
  ELSE 10 * digits_value(SubSeq(s, 1, Len(s) - 1))
       + ((CHOOSE d \in 1..10 : Digits[d] = s[Len(s)]) - 1)

int(s) ==
  LET body == strip(s)
  IN  IF body /= <<>> /\ \A k \in 1..Len(body) : \E d \in 1..10 : Digits[d] = body[k]
      THEN digits_value(body) ELSE ValueError

\* str.split('/')
RECURSIVE split_slash(_)
split_slash(s) ==
  LET at == {k \in 1..Len(s) : s[k] = "/"}
  IN  IF at = {} THEN <<s>>
      ELSE <<SubSeq(s, 1, Min(at) - 1)>> \o split_slash(SubSeq(s, Min(at) + 1, Len(s)))

\* track_num and track_total after the two try blocks; NoNumber is Python's None
track_tags(audio_metadata) ==
  LET track_num_raw   == audio_metadata.track
      track_total_raw == audio_metadata.TRACKTOTAL
      pieces          == split_slash(track_num_raw)
      slashed         == Len(pieces) > 1
      first           == IF slashed THEN int(strip(pieces[1])) ELSE int(strip(track_num_raw))
      second          == IF slashed /\ first /= ValueError THEN int(strip(pieces[2])) ELSE ValueError
      track_num       == IF Truthy(track_num_raw) /\ first /= ValueError THEN first ELSE NoNumber
      from_number     == IF Truthy(track_num_raw) /\ second /= ValueError THEN second ELSE NoNumber
      from_total      == IF Truthy(track_total_raw) /\ int(strip(track_total_raw)) /= ValueError
                         THEN int(strip(track_total_raw)) ELSE NoNumber
  IN  [track_num   |-> track_num,
       track_total |-> IF from_number /= NoNumber THEN from_number ELSE from_total]

\* the audio file paths a folder can hold, in the order sorted() gives them
AudioFilePaths == <<<<"a", ".", "m", "p", "3">>, <<"b", ".", "m", "4", "b">>, <<"c", ".", "m", "p", "3">>, <<"d", ".", "m", "p", "3">>>>

\* sorted(paths).index(path) + 1
sorted_index(paths, path) ==
  LET rank(q) == CHOOSE k \in 1..Len(AudioFilePaths) : AudioFilePaths[k] = q
  IN  Cardinality({k \in 1..Len(paths) : rank(paths[k]) < rank(path)}) + 1

\* track_info_for_filename with the ' of m' part never written
track_info_without_total(info, i) ==
  LET details == info.all_audio_files_details
      tags    == track_tags(details[i].metadata)
      num_audio_files_in_part == Len(details)
      padding == IF tags.track_total /= NoNumber
                 THEN Max({2, Len(IntToStr(tags.track_total))})
                 ELSE IF num_audio_files_in_part > 1
                 THEN Max({2, Len(IntToStr(num_audio_files_in_part))})
                 ELSE 2
      number  == IF tags.track_num /= NoNumber THEN tags.track_num
                 ELSE sorted_index([k \in 1..Len(details) |-> details[k].file_path],
                                   details[i].file_path)
  IN  IF num_audio_files_in_part > 1
      THEN <<" ", "T", "r", "a", "c", "k", " ">> \o ZeroPad(number, padding)
      ELSE <<>>

\* track_info_for_filename that does not look at the number of audio files
track_info_for_every_file(info, i) ==
  LET details == info.all_audio_files_details
      tags    == track_tags(details[i].metadata)
      padding == IF tags.track_total /= NoNumber
                 THEN Max({2, Len(IntToStr(tags.track_total))})
                 ELSE 2
  IN  IF tags.track_num /= NoNumber /\ tags.track_total /= NoNumber
      THEN <<" ", "T", "r", "a", "c", "k", " ">> \o ZeroPad(tags.track_num, padding)
           \o <<" ", "o", "f", " ">> \o ZeroPad(tags.track_total, padding)
      ELSE IF tags.track_num /= NoNumber
      THEN <<" ", "T", "r", "a", "c", "k", " ">> \o ZeroPad(tags.track_num, padding)
      ELSE <<" ", "T", "r", "a", "c", "k", " ">> \o ZeroPad(i, padding) \o <<" ", "o", "f", " ">> \o ZeroPad(Len(details), padding)

\* track_info_for_filename of the audio file at 1-based position i of the part
track_info_for_filename(info, i) ==
  LET details == info.all_audio_files_details
      tags    == track_tags(details[i].metadata)
      num_audio_files_in_part == Len(details)
      padding == IF tags.track_total /= NoNumber
                 THEN Max({2, Len(IntToStr(tags.track_total))})
                 ELSE IF num_audio_files_in_part > 1
                 THEN Max({2, Len(IntToStr(num_audio_files_in_part))})
                 ELSE 2
      current_file_index ==
        sorted_index([k \in 1..Len(details) |-> details[k].file_path], details[i].file_path)
  IN  IF num_audio_files_in_part > 1
      THEN IF tags.track_num /= NoNumber /\ tags.track_total /= NoNumber
           THEN <<" ", "T", "r", "a", "c", "k", " ">> \o ZeroPad(tags.track_num, padding)
                \o <<" ", "o", "f", " ">> \o ZeroPad(tags.track_total, padding)
           ELSE IF tags.track_num /= NoNumber
           THEN <<" ", "T", "r", "a", "c", "k", " ">> \o ZeroPad(tags.track_num, padding)
           ELSE <<" ", "T", "r", "a", "c", "k", " ">> \o ZeroPad(current_file_index, padding)
                \o <<" ", "o", "f", " ">> \o ZeroPad(num_audio_files_in_part, padding)
      ELSE <<>>

\* part_display_name.strip('()') when the entry is a labelled part, else None
part_info_for_audio_filename(info) ==
  IF info.is_multi_part /\ Truthy(info.part_display_name)
  THEN strip_chars(info.part_display_name, {"(", ")"})
  ELSE None

audio_file_base_name(info) ==
  IF part_info_for_audio_filename(info) /= None
  THEN info.core_book_title \o <<" ", "-", " ">> \o part_info_for_audio_filename(info)
  ELSE info.core_book_title

final_audio_file_name(info, i) ==
  sanitize_filename(audio_file_base_name(info) \o track_info_for_filename(info, i)
                    \o splitext(info.all_audio_files_details[i].file_path))

cover_image_base_name(info) ==
  IF part_info_for_audio_filename(info) /= None
  THEN info.core_book_title \o <<" ">> \o part_info_for_audio_filename(info)
  ELSE info.core_book_title

\* the source paths os.link has linked so far
successfully_linked_paths == {a.src : a \in {b \in Range(link_attempts) : b.ok}}

\* the paths below dest_book_path that exist
dest_files == {a.dest : a \in {b \in Range(link_attempts) : b.ok}}

\* the source paths handed to hard_link_to_leftbehind by the task
handed_to_leftbehind == {a.src : a \in {b \in Range(link_attempts) : ~b.ok}}

\* os.link(src, dest) inside try: it raises OSError when dest exists, and the except
\* clause hands src to hard_link_to_leftbehind
os_link(src, dest) ==
  link_attempts' = Append(link_attempts, [src |-> src, dest |-> dest, ok |-> dest \notin dest_files])

\* one iteration of the loop over all_audio_files_details_for_this_part
PlaceAudioFile ==
  /\ task_pc = "audio"
  /\ loop_index < Len(task_book_info.all_audio_files_details)
  /\ os_link(task_book_info.all_audio_files_details[loop_index + 1].file_path,
             <<final_audio_file_name(task_book_info, loop_index + 1)>>)
  /\ loop_index' = loop_index + 1
  /\ UNCHANGED <<task_book_info, all_files_in_folder, task_pc, primary_cover_linked>>
  /\ UNCHANGED <<file_system_vars, run_vars, text_vars>>

\* the audio loop is over; the task lists the physical folder
ListFolder ==
  /\ task_pc = "audio"
  /\ loop_index = Len(task_book_info.all_audio_files_details)
  /\ task_pc' = "other"
  /\ loop_index' = 0
  /\ primary_cover_linked' = FALSE
  /\ UNCHANGED <<task_book_info, all_files_in_folder, link_attempts>>
  /\ UNCHANGED <<file_system_vars, run_vars, text_vars>>

\* other_file_branch that treats a package file like any other unlisted type
other_file_branch_opf_as_extra(file_name) ==
  LET low    == lower(file_name)
      images == {k \in 1..Len(all_files_in_folder) :
                   endswith_any(lower(all_files_in_folder[k]), IMAGE_EXTENSIONS)}
  IN  IF endswith_any(low, IMAGE_EXTENSIONS)
      THEN IF \/ \E kw \in {<<"c", "o", "v", "e", "r">>, <<"f", "o", "l", "d", "e", "r">>, <<"f", "r", "o", "n", "t">>} : Contains(kw, low)
              \/ (~primary_cover_linked /\ Cardinality(images) = 1)
           THEN "cover"
           ELSE IF file_name \notin successfully_linked_paths THEN "extra" ELSE "skip"
      ELSE IF low = <<"p", "l", "a", "y", "l", "i", "s", "t", ".", "l", "l">> THEN "playlist"
      ELSE IF ~endswith_any(low, AUDIO_EXTENSIONS) /\ file_name \notin successfully_linked_paths
      THEN "extra"
      ELSE "skip"

\* the branch the loop over all_files_in_folder takes for one file name
other_file_branch(file_name) ==
  LET low    == lower(file_name)
      images == {k \in 1..Len(all_files_in_folder) :
                   endswith_any(lower(all_files_in_folder[k]), IMAGE_EXTENSIONS)}
  IN  IF endswith_any(low, IMAGE_EXTENSIONS)
      THEN IF \/ \E kw \in {<<"c", "o", "v", "e", "r">>, <<"f", "o", "l", "d", "e", "r">>, <<"f", "r", "o", "n", "t">>} : Contains(kw, low)
              \/ (~primary_cover_linked /\ Cardinality(images) = 1)
           THEN "cover"
           ELSE IF file_name \notin successfully_linked_paths THEN "extra" ELSE "skip"
      ELSE IF low = <<"p", "l", "a", "y", "l", "i", "s", "t", ".", "l", "l">> THEN "playlist"
      ELSE IF endswith_any(low, EBOOK_EXTENSIONS) /\ file_name \notin successfully_linked_paths
      THEN "extra"
      ELSE IF /\ ~endswith_any(low, AUDIO_EXTENSIONS \cup IMAGE_EXTENSIONS
                                    \cup {<<".", "o", "p", "f">>} \cup EBOOK_EXTENSIONS)
              /\ file_name \notin successfully_linked_paths
      THEN "extra"
      ELSE "skip"

\* the destination below dest_book_path the branch links the file to
other_file_dest(info, file_name, branch) ==
  IF branch = "cover"
  THEN <<sanitize_filename(cover_image_base_name(info)) \o <<" ", "C", "o", "v", "e", "r">> \o splitext(file_name)>>
  ELSE IF branch = "playlist" THEN <<sanitize_filename(file_name)>>
  ELSE <<<<"E", "x", "t", "r", "a", "s">>, sanitize_filename(file_name)>>

\* one iteration of the loop over all_files_in_folder
PlaceOtherFile ==
  /\ task_pc = "other"
  /\ loop_index < Len(all_files_in_folder)
  /\ LET file_name == all_files_in_folder[loop_index + 1]
         branch    == other_file_branch(file_name)
         dest      == other_file_dest(task_book_info, file_name, branch)
     IN  /\ IF branch = "skip" THEN UNCHANGED link_attempts ELSE os_link(file_name, dest)
         /\ primary_cover_linked' =
              IF branch = "cover" /\ dest \notin dest_files THEN TRUE ELSE primary_cover_linked
  /\ loop_index' = loop_index + 1
  /\ UNCHANGED <<task_book_info, all_files_in_folder, task_pc>>
  /\ UNCHANGED <<file_system_vars, run_vars, text_vars>>

\* the task returns its counts and logs
ReturnTask ==
  /\ task_pc = "other"
  /\ loop_index = Len(all_files_in_folder)
  /\ task_pc' = "returned"
  /\ UNCHANGED <<task_book_info, all_files_in_folder, loop_index, primary_cover_linked,
                 link_attempts>>
  /\ UNCHANGED <<file_system_vars, run_vars, text_vars>>

\* the track and TRACKTOTAL tags an audio file can carry (None for an absent tag)
TagPool ==
  << [track |-> None,    TRACKTOTAL |-> None],
     [track |-> <<"1">>,     TRACKTOTAL |-> <<"3">>],
     [track |-> <<"2">>,     TRACKTOTAL |-> <<"3">>],
     [track |-> <<"3">>,     TRACKTOTAL |-> <<"3">>],
     [track |-> <<"2", "/", "3">>,   TRACKTOTAL |-> None],
     [track |-> <<" ", "3", " ", "/", "x">>, TRACKTOTAL |-> <<"x">>],
     [track |-> <<"x">>,     TRACKTOTAL |-> <<"1", "0", "0">>] >>

\* the names of files that are not audio files of the book
OtherFileNames ==
  {<<"c", "o", "v", "e", "r", ".", "j", "p", "g">>, <<"F", "r", "o", "n", "t", ".", "j", "p", "g">>, <<"a", "r", "t", ".", "p", "n", "g">>, <<"m", "a", "p", ".", "p", "n", "g">>, <<"p", "l", "a", "y", "l", "i", "s", "t", ".", "l", "l">>, <<"b", "o", "o", "k", ".", "p", "d", "f">>,
   <<"n", "o", "t", "e", "s", ".", "n", "f", "o">>, <<"m", "e", "t", "a", "d", "a", "t", "a", ".", "o", "p", "f">>}

\* the book or part of the task: a single book, or a part labelled '(Part 1 of 2)'
BookShapes ==
  {[core_book_title |-> Dune, is_multi_part |-> FALSE, part_display_name |-> None],
   [core_book_title |-> Dune, is_multi_part |-> TRUE,
    part_display_name |-> <<"(", "P", "a", "r", "t", " ", "1", " ", "o", "f", " ", "2", ")">>]}

\* the logical_book_info of a task with the first n audio file paths
book_info_with_files(shape, tags) ==
  [core_book_title   |-> shape.core_book_title,
   is_multi_part     |-> shape.is_multi_part,
   part_display_name |-> shape.part_display_name,
   all_audio_files_details |->
     [k \in 1..Len(tags) |-> [file_path |-> AudioFilePaths[k], metadata |-> tags[k]]]]

\* a task whose audio files carry any tags, in a folder that holds them and a cover
InitAudioFiles ==
  \E shape \in BookShapes : \E n \in 1..MaxAudioFiles :
    \E choice \in [1..n -> 1..Len(TagPool)] :
      /\ task_book_info = book_info_with_files(shape, [k \in 1..n |-> TagPool[choice[k]]])
      /\ all_files_in_folder = [k \in 1..n |-> AudioFilePaths[k]] \o <<<<"c", "o", "v", "e", "r", ".", "j", "p", "g">>>>

\* a task with one audio file in a folder that lists any other files in any order
InitOtherFiles ==
  \E shape \in BookShapes : \E n \in 0..MaxOtherFiles :
    \E listing \in [1..n -> OtherFileNames] :
      /\ \A i \in 1..n : \A j \in 1..n : i /= j => listing[i] /= listing[j]
      /\ task_book_info = book_info_with_files(shape, <<TagPool[1]>>)
      /\ all_files_in_folder = <<AudioFilePaths[1]>> \o listing

InitPlacement ==
  /\ InitAudioFiles \/ InitOtherFiles
  /\ task_pc = "audio"
  /\ loop_index = 0
  /\ primary_cover_linked = FALSE
  /\ link_attempts = <<>>
  /\ folder_metadata = <<>>
  /\ pc = "process"
  /\ prescan_pending = {}
  /\ physical_folder_metadata_results = <<>>
  /\ logical_books_for_processing = <<>>
  /\ series_max_numbers = <<>>
  /\ ambiguous_base_names = {}
  /\ pool_args_process = <<>>
  /\ process_pending = {}
  /\ process_results = <<>>
  /\ NoSweep
  /\ NoTextCall
  /\ NoFileSystem

NextPlacement ==
  \/ PlaceAudioFile
  \/ ListFolder
  \/ PlaceOtherFile
  \/ ReturnTask

SpecPlacement == InitPlacement /\ [][NextPlacement]_vars

----------------------------------------------------------------------------
(* re: the patterns of metadata_utils, as sequences of nodes, and their matching *)

\* one node of a pattern; every node carries the same fields
Node(t, set, body, g) == [t |-> t, set |-> set, body |-> body, g |-> g]

\* one character of the set; every pattern is compiled with re.IGNORECASE
Cls(set) == Node("cls", {lower(<<c>>)[1] : c \in set}, <<>>, 0)

\* '.': any character but a newline
AnyChar == Node("any", {"\n"}, <<>>, 0)

\* the literal text, letter by letter
Lit(text) == [k \in 1..Len(text) |-> Cls({text[k]})]

\* body*  and  body*?
Star(body) == Node("star", {}, body, 0)

LazyStar(body) == Node("lazystar", {}, body, 0)

\* body+
Plus(body) == body \o <<Star(body)>>

\* (?:body)?
Opt(body) == Node("opt", {}, body, 0)

\* (?:a|b|...): body is the sequence of the alternatives
Alt(alternatives) == Node("alt", {}, alternatives, 0)

\* the parentheses of capturing group g
Open(g) == Node("open", {}, <<>>, g)

Close(g) == Node("close", {}, <<>>, g)

\* '$'
EndOfString == Node("eos", {}, <<>>, 0)

\* '^'
StartOfString == Node("bos", {}, <<>>, 0)

\* the largest number of capturing groups of a pattern
MaxGroups == 3

\* no group has taken part in the match
NoGroups == [g \in 1..MaxGroups |-> <<0, 0>>]

NoMatch == [ok |-> FALSE, end |-> 0, groups |-> NoGroups]

\* the backtracking match of the nodes at position i of s: the first way to match all
\* of them in the order the re module tries them (greedy before shorter, lazy before
\* longer, alternatives left to right)
RECURSIVE match_at(_, _, _, _)
match_at(nodes, s, i, groups) ==
  IF Len(nodes) = 0 THEN [ok |-> TRUE, end |-> i, groups |-> groups]
  ELSE LET n    == Head(nodes)
           rest == Tail(nodes)
       IN  CASE n.t = "cls" ->
                  IF i <= Len(s) /\ lower(<<s[i]>>)[1] \in n.set
                  THEN match_at(rest, s, i + 1, groups) ELSE NoMatch
             [] n.t = "any" ->
                  IF i <= Len(s) /\ s[i] \notin n.set
                  THEN match_at(rest, s, i + 1, groups) ELSE NoMatch
             [] n.t = "star" ->
                  LET more == match_at(n.body \o nodes, s, i, groups)
                  IN  IF more.ok THEN more ELSE match_at(rest, s, i, groups)
             [] n.t = "lazystar" ->
                  LET stop == match_at(rest, s, i, groups)
                  IN  IF stop.ok THEN stop ELSE match_at(n.body \o nodes, s, i, groups)
             [] n.t = "opt" ->
                  LET taken == match_at(n.body \o rest, s, i, groups)
                  IN  IF taken.ok THEN taken ELSE match_at(rest, s, i, groups)
             [] n.t = "alt" ->
                  IF Len(n.body) = 0 THEN NoMatch
                  ELSE LET first == match_at(Head(n.body) \o rest, s, i, groups)
                       IN  IF first.ok THEN first
                           ELSE match_at(<<Alt(Tail(n.body))>> \o rest, s, i, groups)
             [] n.t = "open" ->
                  match_at(rest, s, i, [groups EXCEPT ![n.g] = <<i, 0>>])
             [] n.t = "close" ->
                  match_at(rest, s, i, [groups EXCEPT ![n.g] = <<groups[n.g][1], i>>])
             [] n.t = "eos" ->
                  IF i = Len(s) + 1 THEN match_at(rest, s, i, groups) ELSE NoMatch
             [] n.t = "bos" ->
                  IF i = 1 THEN match_at(rest, s, i, groups) ELSE NoMatch

\* pattern.match(s): the match at the start of s
re_match(pattern, s) == match_at(pattern, s, 1, NoGroups)

\* pattern.search(s) from position from: the match at the leftmost position that has one
search_from(pattern, s, from) ==
  LET starts == {i \in from..(Len(s) + 1) : match_at(pattern, s, i, NoGroups).ok}
  IN  IF starts = {} THEN [start |-> 0, m |-> NoMatch]
      ELSE [start |-> Min(starts), m |-> match_at(pattern, s, Min(starts), NoGroups)]

re_search(pattern, s) == search_from(pattern, s, 1).m

\* re.sub(pattern, '', s): s without the non-overlapping matches, found left to right
RECURSIVE sub_from(_, _, _)
sub_from(pattern, s, from) ==
  LET found == search_from(pattern, s, from)
  IN  IF ~found.m.ok THEN SubSeq(s, from, Len(s))
      ELSE IF found.m.end > found.start
      THEN SubSeq(s, from, found.start - 1) \o sub_from(pattern, s, found.m.end)
      ELSE SubSeq(s, from, found.start) \o sub_from(pattern, s, found.start + 1)

re_sub(pattern, s) == sub_from(pattern, s, 1)

\* group that also gives None for a group that matched the empty text
group_empty_as_none(m, s, g) ==
  IF m.groups[g][2] <= m.groups[g][1] THEN None
  ELSE SubSeq(s, m.groups[g][1], m.groups[g][2] - 1)

\* match.group(g): the text of the group, or None when it took no part in the match
group(m, s, g) ==
  IF m.groups[g] = <<0, 0>> THEN None ELSE SubSeq(s, m.groups[g][1], m.groups[g][2] - 1)

\* \s  \d
WhitespaceClass == Cls(Whitespace)

DigitClass == Cls(Range(Digits))

\* \d+(?:\.\d+)?
NumberPattern == Plus(<<DigitClass>>) \o <<Opt(Lit(<<".">>) \o Plus(<<DigitClass>>))>>

\* float(text) of a text matching \d+(?:\.\d+)?, in tenths; the texts of the model
\* carry at most one digit after the point
float(text) ==
  LET point == {k \in 1..Len(text) : text[k] = "."}
  IN  IF point = {} THEN 10 * digits_value(text)
      ELSE 10 * digits_value(SubSeq(text, 1, Min(point) - 1))
           + digits_value(SubSeq(text, Min(point) + 1, Min(point) + 1))

\* str.capitalize()
capitalize(s) ==
  [i \in 1..Len(s) |->
     IF i = 1 /\ \E k \in 1..Len(LowerCase) : LowerCase[k] = s[i]
     THEN UpperCase[CHOOSE k \in 1..Len(LowerCase) : LowerCase[k] = s[i]]
     ELSE IF i = 1 THEN s[i] ELSE lower(<<s[i]>>)[1]]

----------------------------------------------------------------------------
(* metadata_utils.extract_internal_part_info *)

\* (?:(Part|Disc|Volume)\s+)?
DesignationPrefix ==
  Opt(<<Open(1), Alt(<<Lit(<<"P", "a", "r", "t">>), Lit(<<"D", "i", "s", "c">>), Lit(<<"V", "o", "l", "u", "m", "e">>)>>), Close(1)>>
      \o Plus(<<WhitespaceClass>>))

\* the three patterns of extract_internal_part_info, in their order
patterns ==
  << Lit(<<"(">>) \o <<DesignationPrefix, Open(2)>> \o NumberPattern \o <<Close(2)>>
       \o Plus(<<WhitespaceClass>>) \o Lit(<<"o", "f">>) \o Plus(<<WhitespaceClass>>)
       \o <<Open(3)>> \o Plus(<<DigitClass>>) \o <<Close(3)>> \o Lit(<<")">>),
     Lit(<<"(">>) \o <<Open(1)>> \o NumberPattern \o <<Close(1), Star(<<WhitespaceClass>>),
                        Opt(Lit(<<"o", "f">>)), Star(<<WhitespaceClass>>), Open(2)>>
       \o Plus(<<DigitClass>>) \o <<Close(2)>> \o Lit(<<")">>),
     Lit(<<"(">>) \o <<Open(1)>> \o NumberPattern \o <<Close(1)>> \o Lit(<<")">>) >>

\* (part_designation, part_number, total_parts); the loop breaks at the first pattern
\* that matches, because its number group always converts
extract_internal_part_info(folder_name) ==
  LET m1 == re_search(patterns[1], folder_name)
      m2 == re_search(patterns[2], folder_name)
      m3 == re_search(patterns[3], folder_name)
  IN  IF m1.ok
      THEN [part_designation |-> IF Truthy(group(m1, folder_name, 1))
                                 THEN capitalize(group(m1, folder_name, 1)) ELSE <<"P", "a", "r", "t">>,
            part_number      |-> float(group(m1, folder_name, 2)),
            total_parts      |-> int(group(m1, folder_name, 3))]
      ELSE IF m2.ok
      THEN [part_designation |-> <<"P", "a", "r", "t">>,
            part_number      |-> float(group(m2, folder_name, 1)),
            total_parts      |-> int(group(m2, folder_name, 2))]
      ELSE IF m3.ok
      THEN [part_designation |-> <<"P", "a", "r", "t">>,
            part_number      |-> float(group(m3, folder_name, 1)),
            total_parts      |-> NoNumber]
      ELSE [part_designation |-> None, part_number |-> NoNumber, total_parts |-> NoNumber]

----------------------------------------------------------------------------
(* metadata_utils.strip_part_info_from_title *)

\* \s+of\s+\d+
OfTotal == Plus(<<WhitespaceClass>>) \o Lit(<<"o", "f">>) \o Plus(<<WhitespaceClass>>) \o Plus(<<DigitClass>>)

\* the eleven patterns of strip_part_info_from_title, in their order
part_patterns ==
  << <<Star(<<WhitespaceClass>>)>> \o Lit(<<"(", "P", "a", "r", "t">>) \o Plus(<<WhitespaceClass>>) \o NumberPattern
       \o OfTotal \o Lit(<<")">>),
     <<Star(<<WhitespaceClass>>)>> \o Lit(<<"(">>) \o NumberPattern \o <<Star(<<WhitespaceClass>>)>>
       \o Lit(<<"o", "f">>) \o <<Star(<<WhitespaceClass>>)>> \o Plus(<<DigitClass>>) \o Lit(<<")">>),
     <<Star(<<WhitespaceClass>>)>> \o Lit(<<"(", "D", "i", "s", "c">>) \o Plus(<<WhitespaceClass>>) \o Plus(<<DigitClass>>)
       \o OfTotal \o Lit(<<")">>),
     <<Star(<<WhitespaceClass>>)>> \o Lit(<<"(">>) \o NumberPattern \o Lit(<<")">>),
     <<Star(<<WhitespaceClass>>)>> \o Lit(<<"[", "P", "a", "r", "t">>) \o Plus(<<WhitespaceClass>>) \o NumberPattern
       \o OfTotal \o Lit(<<"]">>),
     <<Star(<<WhitespaceClass>>)>> \o Lit(<<"[">>) \o NumberPattern \o OfTotal \o Lit(<<"]">>),
     <<Star(<<WhitespaceClass>>)>> \o Lit(<<"[", "D", "i", "s", "c">>) \o Plus(<<WhitespaceClass>>) \o Plus(<<DigitClass>>)
       \o OfTotal \o Lit(<<"]">>),
     <<Star(<<WhitespaceClass>>)>> \o Lit(<<"[">>) \o NumberPattern \o Lit(<<"]">>),
     <<Star(<<WhitespaceClass>>)>> \o Lit(<<"-">>) \o <<Star(<<WhitespaceClass>>)>> \o Lit(<<"P", "a", "r", "t">>)
       \o Plus(<<WhitespaceClass>>) \o NumberPattern \o <<Opt(OfTotal)>>,
     <<Star(<<WhitespaceClass>>)>> \o Lit(<<"-">>) \o <<Star(<<WhitespaceClass>>)>> \o NumberPattern
       \o <<Opt(OfTotal)>>,
     <<Star(<<WhitespaceClass>>)>> \o Lit(<<"(", "D", "r", "a", "m", "a", "t", "i", "z", "e", "d", " ", "A", "d", "a", "p", "t", "a", "t", "i", "o", "n", ")">>) >>

\* the loop over part_patterns from pattern k on
RECURSIVE strip_patterns_from(_, _)
strip_patterns_from(cleaned_title, k) ==
  IF k > Len(part_patterns) THEN cleaned_title
  ELSE CHOOSE result \in {strip_patterns_from(next_title, k + 1) :
                            next_title \in {strip(re_sub(part_patterns[k], cleaned_title))}} : TRUE

strip_part_info_from_title(title) ==
  IF ~Truthy(title) THEN <<>>
  ELSE strip(strip_chars(strip_patterns_from(title, 1), {" ", "-", "."}))

----------------------------------------------------------------------------
(* metadata_utils.extract_series_info *)

\* [-:] and the three other separator characters of the class, which no text of the
\* model contains
SeparatorClass == Cls({"-", ":"})

\* (?:Book|Vol|Volume|Part)
VolumeWord == Alt(<<Lit(<<"B", "o", "o", "k">>), Lit(<<"V", "o", "l">>), Lit(<<"V", "o", "l", "u", "m", "e">>), Lit(<<"P", "a", "r", "t">>)>>)

\* (\d+(?:\.\d+)?)\s*[-:]?\s*(.*)?$
SeriesNumberAndRest ==
  <<Open(2)>> \o NumberPattern
  \o <<Close(2), Star(<<WhitespaceClass>>), Opt(<<SeparatorClass>>), Star(<<WhitespaceClass>>),
       Opt(<<Open(3), Star(<<AnyChar>>), Close(3)>>), EndOfString>>

\* the four patterns of extract_series_info, in their order
series_patterns ==
  << <<Open(1), LazyStar(<<AnyChar>>), Close(1), Star(<<WhitespaceClass>>), Cls({"#", "S"}),
       Star(<<WhitespaceClass>>)>> \o SeriesNumberAndRest,
     <<Open(1), LazyStar(<<AnyChar>>), Close(1)>> \o Lit(<<",">>) \o <<Star(<<WhitespaceClass>>), VolumeWord,
       Star(<<WhitespaceClass>>)>> \o SeriesNumberAndRest,
     <<Open(1), LazyStar(<<AnyChar>>), Close(1), Star(<<WhitespaceClass>>), SeparatorClass,
       Star(<<WhitespaceClass>>), VolumeWord, Star(<<WhitespaceClass>>)>> \o SeriesNumberAndRest,
     <<Open(1), LazyStar(<<AnyChar>>), Close(1), Star(<<WhitespaceClass>>)>> \o SeriesNumberAndRest >>

\* the three patterns of the final clean-up of the series name
series_cleanup_patterns ==
  << <<Opt(Lit(<<",">>) \o <<Star(<<WhitespaceClass>>)>>), VolumeWord, Star(<<WhitespaceClass>>)>>
       \o NumberPattern,
     <<Opt(<<Star(<<WhitespaceClass>>), SeparatorClass, Star(<<WhitespaceClass>>)>>), VolumeWord,
       Star(<<WhitespaceClass>>)>> \o NumberPattern,
     <<Star(<<WhitespaceClass>>)>> \o NumberPattern \o <<EndOfString>> >>

\* what the function hands back: its pair, or the exception that left it
Returned(series_name, series_book_num) ==
  [series_name |-> series_name, series_book_num |-> series_book_num, exception |-> None]

Raised(exception) ==
  [series_name |-> None, series_book_num |-> NoNumber, exception |-> exception]

\* the final sanitization of the series name
series_result(series_name, series_book_num) ==
  IF Truthy(series_name)
  THEN Returned(sanitize_filename(
                  strip(re_sub(series_cleanup_patterns[3],
                    strip(re_sub(series_cleanup_patterns[2],
                      strip(re_sub(series_cleanup_patterns[1], series_name))))))),
                series_book_num)
  ELSE Returned(series_name, series_book_num)

\* the two loops from candidate c and pattern p on, with the values found so far
RECURSIVE series_loops(_, _, _, _, _)
series_loops(potential_series_strings, c, p, series_name, series_book_num) ==
  IF c > Len(potential_series_strings) THEN series_result(series_name, series_book_num)
  ELSE IF ~Truthy(potential_series_strings[c])
  THEN series_loops(potential_series_strings, c + 1, 1, series_name, series_book_num)
  ELSE IF p > Len(series_patterns)
  THEN IF Truthy(series_name) /\ series_book_num /= NoNumber
       THEN series_result(series_name, series_book_num)
       ELSE series_loops(potential_series_strings, c + 1, 1, series_name, series_book_num)
  ELSE LET s == strip(potential_series_strings[c])
           m == re_match(series_patterns[p], s)
       IN  IF ~m.ok
           THEN series_loops(potential_series_strings, c, p + 1, series_name, series_book_num)
           ELSE IF group(m, s, 1) = None THEN Raised(<<"A", "t", "t", "r", "i", "b", "u", "t", "e", "E", "r", "r", "o", "r">>)
           ELSE IF group(m, s, 2) = None THEN Raised(<<"T", "y", "p", "e", "E", "r", "r", "o", "r">>)
           ELSE LET extracted_name == strip(group(m, s, 1))
                    name           == IF extracted_name /= <<>> THEN extracted_name
                                      ELSE series_name
                    number         == float(group(m, s, 2))
                IN  IF Truthy(name) /\ number /= NoNumber
                    THEN series_result(name, number)
                    ELSE series_loops(potential_series_strings, c, p + 1, name, number)

\* extract_series_info that takes the candidates in the order title, album, grouping
extract_series_info_title_first(grouping, album, title) ==
  series_loops(<<title, album, grouping>>, 1, 1, None, NoNumber)

extract_series_info(grouping, album, title) ==
  series_loops(<<grouping, album, title>>, 1, 1, None, NoNumber)

----------------------------------------------------------------------------
(* metadata_utils.strip_series_info_from_title *)

\* \s*
Spaces == Star(<<WhitespaceClass>>)

\* the patterns built from the escaped series name, in their order
series_name_patterns(series_name) ==
  LET escaped_series_name == Lit(series_name)
      hash_number == <<Spaces, Cls({"#", "S"}), Spaces>> \o NumberPattern
      volume_number == <<VolumeWord, Spaces>> \o NumberPattern
  IN  << <<StartOfString>> \o escaped_series_name \o hash_number
           \o <<Spaces, Opt(<<SeparatorClass>>), Spaces>>,
         <<StartOfString>> \o escaped_series_name \o Lit(<<",">>) \o <<Spaces>> \o volume_number
           \o <<Spaces, Opt(<<SeparatorClass>>), Spaces>>,
         <<StartOfString>> \o escaped_series_name \o <<Spaces, SeparatorClass, Spaces>> \o volume_number
           \o <<Spaces, Opt(<<SeparatorClass>>), Spaces, Opt(<<Star(<<AnyChar>>)>>), EndOfString>>,
         <<Spaces, Opt(<<SeparatorClass>>), Spaces>> \o escaped_series_name \o hash_number
           \o <<EndOfString>>,
         <<Spaces>> \o Lit(<<",">>) \o <<Spaces>> \o escaped_series_name \o Lit(<<",">>) \o <<Spaces>>
           \o volume_number \o <<EndOfString>>,
         <<Spaces, SeparatorClass, Spaces>> \o escaped_series_name \o <<Spaces, SeparatorClass, Spaces>>
           \o volume_number \o <<EndOfString>>,
         <<StartOfString>> \o escaped_series_name \o <<Spaces, Opt(<<SeparatorClass>>), Spaces>>,
         <<Spaces, Opt(<<SeparatorClass>>), Spaces>> \o escaped_series_name \o <<EndOfString>> >>

\* the two patterns built from str(series_book_num)
book_number_patterns(series_book_num) ==
  LET book_num_str == Lit(FloatToStr(series_book_num))
      of_total     == Opt(<<Spaces>> \o Lit(<<"o", "f">>) \o <<Spaces>> \o Plus(<<DigitClass>>))
  IN  << <<Spaces, Opt(<<SeparatorClass>>), Spaces>> \o book_num_str \o <<of_total, EndOfString>>,
         <<Spaces>> \o Lit(<<"(">>) \o <<Opt(<<VolumeWord>>), Spaces>> \o book_num_str
           \o <<of_total>> \o Lit(<<")">>) >>

\* re.sub(pattern, '', text).strip() for each of the patterns from pattern k on
RECURSIVE strip_each(_, _, _)
strip_each(pattern_list, text, k) ==
  IF k > Len(pattern_list) THEN text
  ELSE CHOOSE result \in {strip_each(pattern_list, next_text, k + 1) :
                            next_text \in {strip(re_sub(pattern_list[k], text))}} : TRUE

strip_series_info_from_title(title, series_name, series_book_num) ==
  IF ~Truthy(title) THEN <<>>
  ELSE LET without_name   == IF Truthy(series_name)
                             THEN strip_each(series_name_patterns(series_name), title, 1)
                             ELSE title
           without_number == IF series_book_num /= NoNumber
                             THEN strip_each(book_number_patterns(series_book_num), without_name, 1)
                             ELSE without_name
       IN  strip(without_number)

----------------------------------------------------------------------------
(* main.group_physical_folders_into_logical_books: the first loop, which     *)
(* derives the key and the core title of one folder from its tags           *)

\* re.split(r'[;,/&]| and ', artist)[0]
first_artist(artist) ==
  LET cuts == {i \in 1..Len(artist) :
                 \/ artist[i] \in {";", ",", "/", "&"}
                 \/ (i + 4 <= Len(artist) /\ SubSeq(artist, i, i + 4) = <<" ", "a", "n", "d", " ">>)}
  IN  IF cuts = {} THEN artist ELSE SubSeq(artist, 1, Min(cuts) - 1)

sanitized_author(artist) ==
  IF Truthy(artist) THEN sanitize_filename(strip(first_artist(artist)))
  ELSE <<"U", "n", "k", "n", "o", "w", "n", " ", "A", "u", "t", "h", "o", "r">>

\* (?:Part|Disc|Volume|Vol)
PartWord == Alt(<<Lit(<<"P", "a", "r", "t">>), Lit(<<"D", "i", "s", "c">>), Lit(<<"V", "o", "l", "u", "m", "e">>), Lit(<<"V", "o", "l">>)>>)

\* (?:Part|Disc|Volume|Vol)\s*\d+(?:\s+of\s*\d+)?
PartWordNumber ==
  <<PartWord, Spaces>> \o Plus(<<DigitClass>>)
  \o <<Opt(Plus(<<WhitespaceClass>>) \o Lit(<<"o", "f">>) \o <<Spaces>> \o Plus(<<DigitClass>>))>>

\* the patterns of the clean-up of a series name taken from the grouping tag
grouping_cleanup_patterns ==
  << Lit(<<"[", "D", "r", "a", "m", "a", "t", "i", "z", "e", "d", " ", "A", "d", "a", "p", "t", "a", "t", "i", "o", "n", "]">>),
     <<Spaces,
       Alt(<< Lit(<<"#">>) \o NumberPattern \o <<Opt(<<Cls({" ", "-"}), Star(<<AnyChar>>)>>)>>,
              Lit(<<"(">>)
                \o <<Alt(<<Lit(<<"b", "o", "o", "k">>), Lit(<<"p", "a", "r", "t">>), Lit(<<"d", "i", "s", "c">>), Lit(<<"v", "o", "l", "u", "m", "e">>), Lit(<<"v", "o", "l">>)>>), Spaces>>
                \o NumberPattern
                \o <<Opt(Plus(<<WhitespaceClass>>) \o Lit(<<"o", "f">>) \o <<Spaces>> \o NumberPattern)>>
                \o Lit(<<")">>),
              Lit(<<"[">>) \o <<LazyStar(<<AnyChar>>)>> \o Lit(<<"]">>) >>),
       EndOfString>>,
     <<Spaces>> \o PartWordNumber,
     Lit(<<"#">>) \o NumberPattern \o <<Opt(Lit(<<",">>) \o <<Spaces>> \o PartWordNumber)>>,
     <<Spaces>> \o Lit(<<"#">>) \o NumberPattern \o <<EndOfString>> >>

\* the series name and book number of a folder: from the patterns, or the book
\* number of the package file with the grouping tag as series name
series_name_and_number_from(extracted, combined_metadata) ==
  LET from_grouping == sanitize_filename(combined_metadata.grouping)
      cleaned       == strip(CollapseWhitespace(strip_each(grouping_cleanup_patterns, from_grouping, 1)))
  IN  IF combined_metadata.series_book_num /= NoNumber
      THEN [sanitized_series_name |->
              IF ~Truthy(extracted.series_name) /\ combined_metadata.grouping /= None
              THEN (IF Truthy(from_grouping) THEN cleaned ELSE from_grouping)
              ELSE extracted.series_name,
            series_book_num_for_logic |-> combined_metadata.series_book_num]
      ELSE [sanitized_series_name |-> extracted.series_name,
            series_book_num_for_logic |-> extracted.series_book_num]

series_name_and_number(combined_metadata) ==
  series_name_and_number_from(extract_series_info(combined_metadata.grouping, combined_metadata.album,
                                                  combined_metadata.title),
                              combined_metadata)

\* title tag, else album tag, else the name of the folder
overall_book_title_raw(combined_metadata, folder_name) ==
  IF Truthy(combined_metadata.title) THEN strip(combined_metadata.title)
  ELSE IF Truthy(combined_metadata.album) THEN strip(combined_metadata.album)
  ELSE folder_name

\* the stripped title, else the title before the part information was stripped,
\* else the raw title
core_title_or_fallback(stripped, temp_core_title, raw) ==
  IF Truthy(stripped) THEN stripped
  ELSE IF Truthy(temp_core_title) THEN temp_core_title
  ELSE raw

core_title_from_temp(temp_core_title, raw) ==
  core_title_or_fallback(strip_part_info_from_title(temp_core_title), temp_core_title, raw)

\* the core title of a folder whose series name and book number are known
core_title_for_series(series, raw) ==
  core_title_from_temp(strip_series_info_from_title(raw, series.sanitized_series_name,
                                                    series.series_book_num_for_logic),
                       raw)

\* the core title with series and part information stripped, and its fallbacks
final_core_book_title_for_grouping(combined_metadata, folder_name) ==
  core_title_for_series(series_name_and_number(combined_metadata),
                        overall_book_title_raw(combined_metadata, folder_name))

logical_book_fields_for_series(series, combined_metadata, folder_name) ==
  [sanitized_author          |-> sanitized_author(combined_metadata.artist),
   sanitized_series_name     |-> series.sanitized_series_name,
   series_book_num_for_logic |-> series.series_book_num_for_logic,
   sanitized_core_book_title_for_grouping |->
     sanitize_filename(core_title_for_series(series,
                                             overall_book_title_raw(combined_metadata, folder_name)))]

\* what the first loop derives from the tags of one folder
logical_book_fields(combined_metadata, folder_name) ==
  logical_book_fields_for_series(series_name_and_number(combined_metadata),
                                 combined_metadata, folder_name)

----------------------------------------------------------------------------
(* The text functions, each applied to texts put together from a few pieces *)

\* largest number of pieces a title or folder name is put together from
MaxPieces == 3

\* largest number of member titles of a multi-part group
MaxTitles == 2

\* the texts made of at most n of the pieces
RECURSIVE TextsFrom(_, _)
TextsFrom(pieces, n) ==
  IF n = 0 THEN {<<>>}
  ELSE TextsFrom(pieces, n - 1)
       \cup {x \o y : x \in TextsFrom(pieces, n - 1), y \in pieces}

\* pieces of titles that carry part information
TitlePieces ==
  {<<"D", "u", "n", "e">>,
   <<" ">>,
   <<"(", "1">>,
   <<"-", "2", ")">>,
   <<"(", "P", "a", "r", "t", " ", "1", " ", "o", "f", " ", "2", ")">>,
   <<" ", "(", "2", "o", "f", "5", ")">>,
   <<"[", "1", "]">>,
   <<" ", "-", " ", "P", "a", "r", "t", " ", "2">>,
   <<".">>}

\* pieces of physical folder names
FolderNamePieces ==
  {<<"D", "u", "n", "e">>,
   <<" ">>,
   <<"(", "P", "a", "r", "t", " ", "1", " ", "o", "f", " ", "2", ")">>,
   <<"(", "d", "i", "s", "c", " ", "3", " ", "o", "f", " ", "1", "2", ")">>,
   <<"(", "2", "o", "f", "5", ")">>,
   <<"(", "1", ".", "5", " ", "o", "f", " ", "3", ")">>,
   <<"(", "7", ")">>,
   <<"(", "1", "2", ")">>,
   <<"(", "x", ")">>}

\* the grouping, album and title tags of a folder (None for an absent tag)
SeriesTexts ==
  {None, <<>>,
   <<"D", "u", "n", "e">>,
   <<"S", "a", "g", "a", " ", "#", "2">>,
   <<"S", "a", "g", "a", ",", " ", "B", "o", "o", "k", " ", "2", ".", "5">>,
   <<"S", "a", "g", "a", " ", "-", " ", "V", "o", "l", " ", "3", ":", " ", "D", "u", "n", "e">>,
   <<"E", "m", "m", "a", " ", "4">>,
   <<"3">>,
   <<"#", "5">>,
   <<" ", "M", "a", "r", "s", " ", "2", " ">>}

\* the raw titles of the members of a multi-part group
MemberTitles ==
  {<<"T", "h", "e", " ", "W", "a", "y", " ", "o", "f", " ", "K", "i", "n", "g", "s", " ", "P", "a", "r", "t", " ", "1">>,
   <<"T", "h", "e", " ", "W", "a", "y", " ", "o", "f", " ", "K", "i", "n", "g", "s", " ", "P", "a", "r", "t", " ", "2">>,
   <<"T", "h", "e", " ", "W", "a", "y", " ", "o", "f", " ", "K", "i", "n", "g", "s", " ", "(", "P", "a", "r", "t", " ", "1", " ", "o", "f", " ", "2", ")">>,
   <<"T", "H", "E", " ", "W", "A", "Y", " ", "O", "F", " ", "K", "I", "N", "G", "S", " ", "(", "2", ")">>,
   <<"D", "u", "n", "e", " ", "-", " ", "P", "a", "r", "t", " ", "1">>,
   <<"D", "u", "n", "e", " ", "M", "e", "s", "s", "i", "a", "h", " ", "-", " ", "P", "a", "r", "t", " ", "2">>,
   <<"E", "m", "m", "a", " ", "(", "1", ")">>,
   <<"(", "2", ")">>}

\* the calls of the text functions under study
TextCalls ==
  {[fn |-> "strip_part_info_from_title", args |-> <<x>>] : x \in TextsFrom(TitlePieces, MaxPieces)}
  \cup {[fn |-> "extract_internal_part_info", args |-> <<x>>] :
          x \in TextsFrom(FolderNamePieces, MaxPieces)}
  \cup {[fn |-> "extract_series_info", args |-> <<g, a, x>>] :
          g \in SeriesTexts, a \in SeriesTexts, x \in SeriesTexts}
  \cup {[fn |-> "shared_book_title", args |-> titles] :
          titles \in UNION {[1..n -> MemberTitles] : n \in 2..MaxTitles}}

\* strip_part_info_from_title applied to the text, and then to its own result
CallStripPartInfo ==
  /\ text_input.fn = "strip_part_info_from_title"
  /\ Len(text_output) < 2
  /\ text_output' = Append(text_output,
                           strip_part_info_from_title(IF Len(text_output) = 0
                                                      THEN text_input.args[1]
                                                      ELSE text_output[Len(text_output)]))
  /\ UNCHANGED <<text_input, file_system_vars, run_vars, placement_vars>>

CallExtractInternalPartInfo ==
  /\ text_input.fn = "extract_internal_part_info"
  /\ Len(text_output) = 0
  /\ text_output' = <<extract_internal_part_info(text_input.args[1])>>
  /\ UNCHANGED <<text_input, file_system_vars, run_vars, placement_vars>>

CallExtractSeriesInfo ==
  /\ text_input.fn = "extract_series_info"
  /\ Len(text_output) = 0
  /\ text_output' = <<extract_series_info(text_input.args[1], text_input.args[2],
                                          text_input.args[3])>>
  /\ UNCHANGED <<text_input, file_system_vars, run_vars, placement_vars>>

\* the titles of the members of a group, part-stripped, and their shared title
CallSharedBookTitle ==
  /\ text_input.fn = "shared_book_title"
  /\ Len(text_output) = 0
  /\ LET raw  == text_input.args
         list == [k \in 1..Len(raw) |->
                    [combined_metadata |->
                       [cleaned_title_for_common |-> strip_part_info_from_title(raw[k])]]]
     IN  text_output' =
           <<[titles_for_common_substring |->
                [k \in 1..Len(raw) |-> list[k].combined_metadata.cleaned_title_for_common],
              shared_book_title |-> shared_book_title(<<Al, None, NoNumber, None>>, list)]>>
  /\ UNCHANGED <<text_input, file_system_vars, run_vars, placement_vars>>

InitText ==
  /\ text_input \in TextCalls
  /\ text_output = <<>>
  /\ NoPlacementTask
  /\ folder_metadata = <<>>
  /\ pc = "prescan"
  /\ prescan_pending = {}
  /\ physical_folder_metadata_results = <<>>
  /\ logical_books_for_processing = <<>>
  /\ series_max_numbers = <<>>
  /\ ambiguous_base_names = {}
  /\ pool_args_process = <<>>
  /\ process_pending = {}
  /\ process_results = <<>>
  /\ NoSweep
  /\ NoFileSystem

NextText ==
  \/ CallStripPartInfo
  \/ CallExtractInternalPartInfo
  \/ CallExtractSeriesInfo
  \/ CallSharedBookTitle

SpecText == InitText /\ [][NextText]_vars

----------------------------------------------------------------------------
(* The placement function applied to every entry the grouper returns: the    *)
(* placement pool with one argument tuple per entry, parts included.        *)

\* number of physical book folders the grouper is given
MaxDestFolders == 3

\* folders of one author and title whose publisher tags differ in spelling only, or
\* are blank; the publisher is what the pre-scan worker stores for the tag
PublisherVariantFolders ==
  << \* 'Dune blank': title Dune, publisher ' ', performer Kramer
     Scanned(Al, None, NoNumber, Dune, Dune, normalize_publisher_name(<<" ">>), Kramer,
             None, NoNumber, NoNumber, FALSE),
     \* 'Emma HA': title Emma, publisher 'Hachette Audio'
     Scanned(Al, None, NoNumber, Emma, Emma,
             normalize_publisher_name(<<"H", "a", "c", "h", "e", "t", "t", "e", " ", "A", "u", "d", "i", "o">>),
             None, None, NoNumber, NoNumber, FALSE),
     \* 'Emma ha': title Emma, publisher 'hachette  audio' with two spaces
     Scanned(Al, None, NoNumber, Emma, Emma,
             normalize_publisher_name(<<"h", "a", "c", "h", "e", "t", "t", "e", " ", " ", "a", "u", "d", "i", "o">>),
             None, None, NoNumber, NoNumber, FALSE) >>

\* the folders the placement function is applied to
DestFolderPool == FolderPool \o PublisherVariantFolders

\* the placement pool starts with one task per entry of the grouper's list, built
\* from the results of the folders taken in path order
InitDest ==
  /\ \E n \in 1..MaxDestFolders :
       \E choice \in [1..n -> 1..Len(DestFolderPool)] :
         /\ \A i \in 1..n : \A j \in 1..n : i <= j => choice[i] <= choice[j]
         /\ folder_metadata = [i \in 1..n |-> _get_physical_folder_metadata(i, DestFolderPool[choice[i]])]
  /\ physical_folder_metadata_results = folder_metadata
  /\ prescan_pending = {}
  /\ logical_books_for_processing = final_logical_books_for_processing(physical_folder_metadata_results)
  /\ ambiguous_base_names = compute_ambiguous_base_names(logical_books_for_processing)
  /\ series_max_numbers = compute_series_max_numbers(logical_books_for_processing)
  /\ pool_args_process = [k \in 1..Len(logical_books_for_processing) |->
                            pool_arg(logical_books_for_processing[k])]
  /\ process_pending = 1..Len(logical_books_for_processing)
  /\ process_results = <<>>
  /\ pc = "process"
  /\ all_source_files_found_during_scan =
       UNION {source_files(folder_metadata[i].physical_folder_path) : i \in DOMAIN folder_metadata}
  /\ swept_to_leftbehind = {}
  /\ NoPlacementTask
  /\ NoTextCall
  /\ NoFileSystem

NextDest ==
  \/ \E t \in 1..MaxDestFolders : ProcessResult(t)
  \/ Finish

SpecDest == InitDest /\ [][NextDest]_vars

----------------------------------------------------------------------------
(* The naming functions, each applied to names put together from a few pieces *)

\* largest number of pieces a name is put together from
MaxNamePieces == 3

\* largest number of audio files of the part whose file names are built
MaxNamedFiles == 2

\* a run of n letters
LongRun(n) == [k \in 1..n |-> "a"]

\* pieces of names handed to sanitize_filename
NamePieces ==
  {<<"D", "u", "n", "e">>,
   <<" ">>, <<".">>, <<"\t">>, <<":">>, <<"?", " ", " ">>,
   LongRun(MaxNameLen - 1)}

\* publisher and performer tags (None for an absent tag)
PublisherTexts ==
  {None, <<>>,
   <<"A", "u", "d", "i", "b", "l", "e", " ", "S", "t", "u", "d", "i", "o", "s">>,
   <<"a", "u", "d", "i", "b", "l", "e">>,
   <<" ", "A", "U", "D", "I", "B", "L", "E", " ">>,
   <<"G", "r", "a", "p", "h", "i", "c">>,
   <<"h", "a", "c", "h", "e", "t", "t", "e", " ", " ", "a", "u", "d", "i", "o">>,
   <<"h", "a", "c", "h", "e", "t", "t", "e", " ", "a", "u", "d", "i", "o">>,
   <<"T", "o", "r">>,
   <<"T", "O", "R">>,
   <<"\t", "T", "o", "r">>,
   <<"T", "o", "r", ":", " ", "B", "o", "o", "k", "s", ".">>,
   <<"m", "i", "c", "h", "a", "e", "l", "-", "s", "c", "o", "t", "t", " ", "e", "a", "r", "l", "e">>,
   <<"G", "r", "a", "p", "h", "i", "c", " ", "A", "u", "d", "i", "o", " ", "C", "a", "s", "t">>,
   <<"H", "a", "r", "p", "e", "r", "A", "u", "d", "i", "o">>}

\* core titles of books: a short one and two at the length cap of names
LongTitles == {Dune, LongRun(MaxNameLen - 4), LongRun(MaxNameLen - 3)}

\* artist tags (None for an absent tag)
ArtistTexts ==
  {None,
   <<>>,
   <<"A", "l">>,
   <<"A", "l", ",", " ", "B", "o">>,
   <<"A", "l", " ", "a", "n", "d", " ", "B", "o">>,
   <<".">>,
   <<" ">>,
   <<"&", " ", "B", "o">>}

\* grouping tags
GroupingTexts ==
  {None,
   <<>>,
   <<"S", "a", "g", "a">>,
   <<"S", "a", "g", "a", " ", "#", "2">>,
   <<".", " ", "#", "2">>,
   <<"2", " ", "S", "a", "g", "a", " ", "V", "o", "l", " ", "3">>}

\* album tags
AlbumTexts ==
  {None,
   <<"D", "u", "n", "e">>,
   <<"S", "a", "g", "a", " ", "2", " ", "-", " ", "D", "u", "n", "e">>}

\* title tags
TitleTexts ==
  {None,
   <<" ">>,
   <<".">>,
   <<"D", "u", "n", "e">>,
   <<"S", "a", "g", "a", " ", "#", "2">>,
   <<"S", "a", "g", "a", " ", "#", "2", " ", "-", " ", "D", "u", "n", "e">>,
   <<"D", "u", "n", "e", " ", "(", "P", "a", "r", "t", " ", "1", " ", "o", "f", " ", "2", ")">>,
   <<"(", "1", ")">>,
   <<"D", "u", "n", "e", " ", "-", " ", "S", "a", "g", "a", ",", " ", "B", "o", "o", "k", " ", "2">>}

\* the tags of one folder; series_book_num is the book number of a package file
TagRecords ==
  {[artist |-> artist, grouping |-> None, album |-> None, title |-> Dune, series_book_num |-> NoNumber] :
     artist \in ArtistTexts}
  \cup {[artist |-> Al, grouping |-> grouping, album |-> album, title |-> title,
          series_book_num |-> series_book_num] :
          grouping \in GroupingTexts, album \in AlbumTexts, title \in TitleTexts,
          series_book_num \in {NoNumber, 20}}

\* names of physical folders
FolderNames == {<<"D", "u", "n", "e", " ", "(", "1", ")">>, <<".", ".", ".">>}

\* the calls of the naming functions under study
NameCalls ==
  {[fn |-> "sanitize_filename", args |-> <<x>>] : x \in TextsFrom(NamePieces, MaxNamePieces)}
  \cup {[fn |-> "normalize_publisher_name", args |-> <<x>>] : x \in PublisherTexts}
  \cup {[fn |-> "final_audio_file_name", args |-> <<info, i>>] :
          info \in {book_info_with_files([shape EXCEPT !.core_book_title = title],
                                         [k \in DOMAIN choice |-> TagPool[choice[k]]]) :
                      shape \in BookShapes, title \in LongTitles,
                      choice \in UNION {[1..n -> 1..Len(TagPool)] : n \in 1..MaxNamedFiles}},
          i \in 1..MaxNamedFiles}
  \cup {[fn |-> "logical_book_fields", args |-> <<tags, folder_name>>] :
          tags \in TagRecords, folder_name \in FolderNames}

CallSanitizeFilename ==
  /\ text_input.fn = "sanitize_filename"
  /\ Len(text_output) = 0
  /\ text_output' = <<sanitize_filename(text_input.args[1])>>
  /\ UNCHANGED <<text_input, file_system_vars, run_vars, placement_vars>>

\* normalize_publisher_name applied to the tag, and then to its own result
CallNormalizePublisherName ==
  /\ text_input.fn = "normalize_publisher_name"
  /\ Len(text_output) < 2
  /\ text_output' = Append(text_output,
                           normalize_publisher_name(IF Len(text_output) = 0
                                                    THEN text_input.args[1]
                                                    ELSE text_output[Len(text_output)]))
  /\ UNCHANGED <<text_input, file_system_vars, run_vars, placement_vars>>

\* the destination file name of the audio file at position args[2] of the part
CallFinalAudioFileName ==
  /\ text_input.fn = "final_audio_file_name"
  /\ Len(text_output) = 0
  /\ text_input.args[2] <= Len(text_input.args[1].all_audio_files_details)
  /\ text_output' = <<final_audio_file_name(text_input.args[1], text_input.args[2])>>
  /\ UNCHANGED <<text_input, file_system_vars, run_vars, placement_vars>>

\* the first loop of the grouper on the tags of one folder
CallLogicalBookFields ==
  /\ text_input.fn = "logical_book_fields"
  /\ Len(text_output) = 0
  /\ text_output' = <<logical_book_fields(text_input.args[1], text_input.args[2])>>
  /\ UNCHANGED <<text_input, file_system_vars, run_vars, placement_vars>>

InitNames ==
  /\ text_input \in NameCalls
  /\ text_output = <<>>
  /\ NoPlacementTask
  /\ folder_metadata = <<>>
  /\ pc = "prescan"
  /\ prescan_pending = {}
  /\ physical_folder_metadata_results = <<>>
  /\ logical_books_for_processing = <<>>
  /\ series_max_numbers = <<>>
  /\ ambiguous_base_names = {}
  /\ pool_args_process = <<>>
  /\ process_pending = {}
  /\ process_results = <<>>
  /\ NoSweep
  /\ NoFileSystem

NextNames ==
  \/ CallSanitizeFilename
  \/ CallNormalizePublisherName
  \/ CallFinalAudioFileName
  \/ CallLogicalBookFields

SpecNames == InitNames /\ [][NextNames]_vars

----------------------------------------------------------------------------
(* The script's work on the file system: the entry point, the start-up of
   organize_audiobooks_main, the links and the files written at the end *)

\* the folders under the source root in one run are at most MaxSourceFolders
MaxSourceFolders == 2

\* posixpath.basename
basename(p) ==
  LET slashes == {k \in 1..Len(p) : p[k] = "/"}
  IN  IF slashes = {} THEN p ELSE SubSeq(p, Max(slashes) + 1, Len(p))

\* posixpath.dirname
dirname(p) ==
  LET slashes == {k \in 1..Len(p) : p[k] = "/"}
      head    == IF slashes = {} THEN <<>> ELSE SubSeq(p, 1, Max(slashes))
      others  == {k \in 1..Len(head) : head[k] /= "/"}
  IN  IF others = {} THEN head ELSE SubSeq(head, 1, Max(others))

\* posixpath.join of two paths
join(a, b) ==
  IF b /= <<>> /\ b[1] = "/" THEN b
  ELSE IF a = <<>> \/ a[Len(a)] = "/" THEN a \o b
  ELSE a \o <<"/">> \o b

\* the loop of posixpath.normpath over the pieces between slashes
RECURSIVE new_comps(_, _, _, _)
new_comps(comps, k, initial_slashes, kept) ==
  IF k > Len(comps) THEN kept
  ELSE LET comp == comps[k]
       IN  IF comp = <<>> \/ comp = <<".">> THEN new_comps(comps, k + 1, initial_slashes, kept)
           ELSE IF \/ comp /= <<".", ".">>
                   \/ (initial_slashes = 0 /\ kept = <<>>)
                   \/ (kept /= <<>> /\ kept[Len(kept)] = <<".", ".">>)
                THEN new_comps(comps, k + 1, initial_slashes, Append(kept, comp))
           ELSE IF kept /= <<>>
                THEN new_comps(comps, k + 1, initial_slashes, SubSeq(kept, 1, Len(kept) - 1))
           ELSE new_comps(comps, k + 1, initial_slashes, kept)

\* '/'.join(comps)
RECURSIVE slash_join(_)
slash_join(comps) ==
  IF comps = <<>> THEN <<>>
  ELSE IF Len(comps) = 1 THEN comps[1]
  ELSE comps[1] \o <<"/">> \o slash_join(Tail(comps))

\* posixpath.normpath
normpath(path) ==
  LET starts(prefix) == Len(path) >= Len(prefix) /\ SubSeq(path, 1, Len(prefix)) = prefix
      initial_slashes == IF ~starts(<<"/">>) THEN 0
                         ELSE IF starts(<<"/", "/">>) /\ ~starts(<<"/", "/", "/">>) THEN 2
                         ELSE 1
      joined == slash_join(new_comps(split_slash(path), 1, initial_slashes, <<>>))
      result == [k \in 1..initial_slashes |-> "/"] \o joined
  IN  IF path = <<>> \/ result = <<>> THEN <<".">> ELSE result

\* the directory the script is started in
WorkingDirectory == <<"/", "h", "o", "m", "e", "/", "u">>

\* the place in the file system that the operating system finds for a path: the
\* names from the root downwards, as posixpath.abspath and a split at '/' give them
Resolve(path) ==
  LET absolute == normpath(join(WorkingDirectory, path))
  IN  SelectSeq(split_slash(absolute), LAMBDA comp : comp /= <<>>)

\* posixpath.relpath
relpath(path, start) ==
  LET start_list == Resolve(start)
      path_list  == Resolve(path)
      i          == Max({k \in 0..Min({Len(start_list), Len(path_list)}) :
                           SubSeq(start_list, 1, k) = SubSeq(path_list, 1, k)})
      rel_list   == [k \in 1..(Len(start_list) - i) |-> <<".", ".">>]
                    \o SubSeq(path_list, i + 1, Len(path_list))
  IN  IF rel_list = <<>> THEN <<".">> ELSE slash_join(rel_list)

\* entry `e` of the file system is `directory` or lies below it
IsAtOrBelow(e, directory) ==
  Len(e) >= Len(directory) /\ SubSeq(e, 1, Len(directory)) = directory

\* the values the script's entry point derives from --source-path
SOURCE_ROOT_DIR == normpath(source_path)

DEST_BASE_DIR ==
  join(dirname(SOURCE_ROOT_DIR), basename(SOURCE_ROOT_DIR) \o <<"_", "o", "r", "g", "a", "n", "i", "z", "e", "d">>)

DATA_DIR ==
  join(dirname(SOURCE_ROOT_DIR),
       <<".", "a", "u", "d", "i", "o", "b", "o", "o", "k", "_", "o", "r", "g", "a", "n", "i", "z", "e", "r", "_", "d", "a", "t", "a">>)

LOG_FILE_PATH == join(DATA_DIR, <<"o", "r", "g", "a", "n", "i", "z", "e", "_", "a", "u", "d", "i", "o", "b", "o", "o", "k", "s", "_", "v", "1", ".", "0", ".", "4", "0", ".", "l", "o", "g">>)

MANUAL_LOG_FILE_PATH == join(DATA_DIR, <<"m", "a", "n", "u", "a", "l", "_", "a", "c", "t", "i", "o", "n", "s", "_", "r", "e", "q", "u", "i", "r", "e", "d", "_", "v", "1", ".", "0", ".", "4", "0", ".", "l", "o", "g">>)

CACHE_FILE_PATH == join(DATA_DIR, <<"a", "u", "d", "i", "o", "b", "o", "o", "k", "_", "m", "e", "t", "a", "d", "a", "t", "a", "_", "c", "a", "c", "h", "e", ".", "j", "s", "o", "n">>)

\* the directory of the same name that organize_audiobooks_main derives
LEFTBEHIND_BASE_DIR ==
  join(dirname(SOURCE_ROOT_DIR), basename(SOURCE_ROOT_DIR) \o <<"_", "l", "e", "f", "t", "b", "e", "h", "i", "n", "d">>)

\* the two files generate_ls_output writes
ls_output_paths ==
  <<join(dirname(LOG_FILE_PATH), <<"o", "r", "g", "a", "n", "i", "z", "e", "d", "_", "l", "s", "_", "r", "e", "s", "u", "l", "t", ".", "t", "x", "t">>),
    join(dirname(LOG_FILE_PATH), <<"l", "e", "f", "t", "b", "e", "h", "i", "n", "d", "_", "l", "s", "_", "r", "e", "s", "u", "l", "t", ".", "t", "x", "t">>)>>

\* one call that changes the file system; the path of an os.link call is the new name
FileSystemCall(call, path) == [call |-> call, path |-> path]

\* the file system after one call: os.makedirs(exist_ok=True), shutil.rmtree,
\* open(path, 'w') and os.link
after_call(entries, c) ==
  LET target == Resolve(c.path)
      parents(e) == {SubSeq(e, 1, k) : k \in 1..Len(e)}
  IN  CASE c.call = "makedirs" -> entries \cup parents(target)
        [] c.call = "rmtree"   -> {e \in entries : ~IsAtOrBelow(e, target)}
        [] c.call = "open_w"   -> entries \cup {target}
        [] c.call = "link"     -> entries \cup {target}

\* the file system after a sequence of calls
RECURSIVE after_calls(_, _, _)
after_calls(entries, calls, k) ==
  IF k > Len(calls) THEN entries
  ELSE after_calls(after_call(entries, calls[k]), calls, k + 1)

\* os.path.exists
exists(path) == Resolve(path) \in file_system

\* the script makes the calls `calls`, one after the other
MakeCalls(calls) ==
  /\ file_system' = after_calls(file_system, calls, 1)
  /\ file_system_calls' = file_system_calls \o calls

\* the set `S` as a sequence, in some order
RECURSIVE in_some_order(_)
in_some_order(S) ==
  IF S = {} THEN <<>> ELSE LET x == CHOOSE y \in S : TRUE IN <<x>> \o in_some_order(S \ {x})

\* the folders a source tree may hold
SourceFolderNames == <<<<"D", "u", "n", "e">>, <<"E", "m", "m", "a">>, <<"S", "a", "g", "a">>>>

\* the values of --source-path looked at
SourcePaths ==
  {<<"l", "i", "b">>, <<"/", "s", "r", "v", "/", "l", "i", "b">>, <<"l", "i", "b", "/">>,
   <<"u", "/", ".", ".", "/", "l", "i", "b">>,
   <<".">>, <<".", ".">>, <<"/">>}

\* the path os.walk(source_root_dir) gives the folder `name` directly under the root
walked_folder(name) == join(SOURCE_ROOT_DIR, name)

\* the path of a source file, os.path.join(root, file)
source_file_path(file) == join(file[1], file[2])

\* what an earlier run with the same --source-path left behind: its data directory,
\* one book in its organized directory, one file in its leftbehind directory
earlier_run_calls(organized, leftbehind) ==
  LET book == <<"b", "o", "o", "k", ".", "m", "p", "3">>
  IN  <<FileSystemCall("makedirs", DATA_DIR), FileSystemCall("open_w", LOG_FILE_PATH),
        FileSystemCall("open_w", MANUAL_LOG_FILE_PATH), FileSystemCall("open_w", CACHE_FILE_PATH)>>
      \o (IF organized
          THEN <<FileSystemCall("makedirs", join(DEST_BASE_DIR, <<"A", "l">>)),
                 FileSystemCall("link", join(join(DEST_BASE_DIR, <<"A", "l">>), book))>>
          ELSE <<>>)
      \o (IF leftbehind
          THEN <<FileSystemCall("makedirs", join(LEFTBEHIND_BASE_DIR, <<"A", "l">>)),
                 FileSystemCall("link", join(join(LEFTBEHIND_BASE_DIR, <<"A", "l">>), book))>>
          ELSE <<>>)

\* the source tree: the folders `names` directly under the source root, each with
\* the files of source_files
source_tree(names) ==
  after_calls({},
              in_some_order({FileSystemCall("makedirs", walked_folder(name)) : name \in names}
                            \cup {FileSystemCall("link", source_file_path(file)) :
                                    file \in UNION {source_files(walked_folder(name)) : name \in names}}),
              1)

InitFileSystem ==
  /\ source_path \in SourcePaths
  /\ \E names \in SUBSET Range(SourceFolderNames) :
       /\ Cardinality(names) \in 1..MaxSourceFolders
       /\ \E earlier \in {"none", "data", "both"} :
            file_system =
              after_calls(source_tree(names),
                          IF earlier = "none" THEN <<>>
                          ELSE earlier_run_calls(earlier = "both", earlier = "both"),
                          1)
  /\ file_system_calls = <<>>
  /\ pc = "start"
  /\ folder_metadata = <<>>
  /\ prescan_pending = {}
  /\ physical_folder_metadata_results = <<>>
  /\ logical_books_for_processing = <<>>
  /\ series_max_numbers = <<>>
  /\ ambiguous_base_names = {}
  /\ pool_args_process = <<>>
  /\ process_pending = {}
  /\ process_results = <<>>
  /\ NoSweep
  /\ NoPlacementTask
  /\ NoTextCall

\* what the file-system actions leave alone
file_system_frame ==
  UNCHANGED <<source_path, folder_metadata, prescan_pending, physical_folder_metadata_results,
              logical_books_for_processing, series_max_numbers, ambiguous_base_names,
              pool_args_process, process_results, swept_to_leftbehind,
              placement_vars, text_vars>>

\* organize_audiobooks_main opens the two log files; without ffprobe it returns
OpenLogFiles(ffprobe_found) ==
  /\ pc = "start"
  /\ MakeCalls(<<FileSystemCall("makedirs", dirname(LOG_FILE_PATH)),
                 FileSystemCall("open_w", LOG_FILE_PATH),
                 FileSystemCall("open_w", MANUAL_LOG_FILE_PATH)>>)
  /\ pc' = IF ffprobe_found THEN "destination" ELSE "returned"
  /\ UNCHANGED <<all_source_files_found_during_scan, process_pending>>
  /\ file_system_frame

\* the destination directory: emptied and made again when it exists and the user
\* (or --force-empty) says 'y', made when it does not exist; any other answer
\* ends the run
PrepareDestination(response) ==
  /\ pc = "destination"
  /\ IF exists(DEST_BASE_DIR)
     THEN IF response = "y"
          THEN /\ MakeCalls(<<FileSystemCall("rmtree", DEST_BASE_DIR),
                              FileSystemCall("makedirs", DEST_BASE_DIR)>>)
               /\ pc' = "leftbehind"
          ELSE /\ UNCHANGED <<file_system, file_system_calls>>
               /\ pc' = "returned"
     ELSE /\ response = "y"
          /\ MakeCalls(<<FileSystemCall("makedirs", DEST_BASE_DIR)>>)
          /\ pc' = "leftbehind"
  /\ UNCHANGED <<all_source_files_found_during_scan, process_pending>>
  /\ file_system_frame

\* the leftbehind directory: emptied and made again when it exists, made when it
\* does not; the run goes on when source, destination and leftbehind are on one
\* file system
PrepareLeftbehind(same_filesystem) ==
  /\ pc = "leftbehind"
  /\ IF exists(LEFTBEHIND_BASE_DIR)
     THEN MakeCalls(<<FileSystemCall("rmtree", LEFTBEHIND_BASE_DIR),
                      FileSystemCall("makedirs", LEFTBEHIND_BASE_DIR)>>)
     ELSE MakeCalls(<<FileSystemCall("makedirs", LEFTBEHIND_BASE_DIR)>>)
  /\ pc' = IF same_filesystem THEN "scan" ELSE "returned"
  /\ UNCHANGED <<all_source_files_found_during_scan, process_pending>>
  /\ file_system_frame

\* the folders directly under the source root that os.walk does not skip
walked_folders ==
  {walked_folder(name) : name \in {n \in Range(SourceFolderNames) : exists(walked_folder(n))}}

\* the discovery of the physical folders and of their files; `selected` are the
\* folders of the logical books left after the --author and --series filters. With
\* a relative source path the pre-scan worker joins the folder path to the path of
\* each audio file, which holds it already, reads no metadata and no folder gives
\* a logical book
CollectSourceFiles(selected) ==
  /\ pc = "scan"
  /\ selected \subseteq walked_folders
  /\ SOURCE_ROOT_DIR[1] /= "/" => selected = {}
  /\ all_source_files_found_during_scan' = UNION {source_files(folder) : folder \in walked_folders}
  /\ process_pending' = selected
  /\ pc' = "link"
  /\ UNCHANGED <<file_system, file_system_calls>>
  /\ file_system_frame

\* the directory of one book in the organized tree
organized_book_path(folder) == join(join(DEST_BASE_DIR, <<"A", "l">>), basename(folder))

\* the calls of hard_link_to_leftbehind for one source file
hard_link_to_leftbehind(src_path) ==
  LET dest_path == join(LEFTBEHIND_BASE_DIR, relpath(src_path, SOURCE_ROOT_DIR))
  IN  <<FileSystemCall("makedirs", dirname(dest_path))>>
      \o (IF exists(dest_path) THEN <<>> ELSE <<FileSystemCall("link", dest_path)>>)

\* the calls of hard_link_to_leftbehind for the files in `files`, one after the other
RECURSIVE sweep_calls(_)
sweep_calls(files) ==
  IF files = {} THEN <<>>
  ELSE LET file == CHOOSE f \in files : TRUE
       IN  hard_link_to_leftbehind(source_file_path(file)) \o sweep_calls(files \ {file})

\* one placement task: the directory of the book is made, every file of the folder
\* is hard-linked into it, handed to hard_link_to_leftbehind or passed over, and
\* every file of the folder leaves the sweep set
PlaceBook(folder, outcome) ==
  /\ pc = "link"
  /\ folder \in process_pending
  /\ MakeCalls(<<FileSystemCall("makedirs", organized_book_path(folder))>>
               \o in_some_order({FileSystemCall("link", join(organized_book_path(folder), file[2])) :
                                   file \in {f \in source_files(folder) : outcome[f] = "organized"}})
               \o sweep_calls({f \in source_files(folder) : outcome[f] = "leftbehind"}))
  /\ process_pending' = process_pending \ {folder}
  /\ all_source_files_found_during_scan' = all_source_files_found_during_scan \ source_files(folder)
  /\ UNCHANGED pc
  /\ file_system_frame

\* the end of the run: the sweep, the two listings, the manual log and the cache
SweepAndWrite ==
  /\ pc = "link"
  /\ process_pending = {}
  /\ MakeCalls(sweep_calls(all_source_files_found_during_scan)
               \o <<FileSystemCall("open_w", ls_output_paths[1]),
                    FileSystemCall("open_w", ls_output_paths[2]),
                    FileSystemCall("open_w", MANUAL_LOG_FILE_PATH),
                    FileSystemCall("open_w", CACHE_FILE_PATH)>>)
  /\ pc' = "done"
  /\ UNCHANGED <<all_source_files_found_during_scan, process_pending>>
  /\ file_system_frame

NextFileSystem ==
  \/ \E ffprobe_found \in BOOLEAN : OpenLogFiles(ffprobe_found)
  \/ \E response \in {"y", "n"} : PrepareDestination(response)
  \/ \E same_filesystem \in BOOLEAN : PrepareLeftbehind(same_filesystem)
  \/ \E selected \in SUBSET walked_folders : CollectSourceFiles(selected)
  \/ \E folder \in walked_folders :
       \E outcome \in [source_files(folder) -> {"organized", "leftbehind", "skipped"}] :
         PlaceBook(folder, outcome)
  \/ SweepAndWrite

SpecFileSystem == InitFileSystem /\ [][NextFileSystem]_vars

----------------------------------------------------------------------------
(* The files of one selected folder from the scan to the sweep: the placement
   task, the removal of the folder's files from the sweep set, the sweep *)

\* the files next to the audio file in the folder are at most MaxSweepFiles
MaxSweepFiles == 3

\* names of files in the folder: a cover, a package file, an audio file whose
\* metadata could not be read, an e-book, a file of no listed type
SweepFileNames ==
  {<<"c", "o", "v", "e", "r", ".", "j", "p", "g">>, <<"m", "e", "t", "a", "d", "a", "t", "a", ".", "o", "p", "f">>,
   AudioFilePaths[4], <<"b", "o", "o", "k", ".", "p", "d", "f">>, <<"n", "o", "t", "e", "s", ".", "n", "f", "o">>}

\* a file in a sub-directory of the folder
FileInSubdirectory == <<"C", "D", "1", "/", "m", "a", "p", ".", "p", "n", "g">>

\* the files os.walk finds under the physical folder at `path`
walked_files(path) ==
  {<<path, name>> : name \in Range(all_files_in_folder) \cup folder_metadata[path].files_in_subdirectories}

\* one selected folder with one audio file that has metadata, other files in any
\* listing order, and possibly a file in a sub-directory; the placement pool holds
\* the task of the folder
InitSweep ==
  /\ \E n \in 0..MaxSweepFiles :
       \E listing \in [1..n -> SweepFileNames] :
         /\ \A i \in 1..n : \A j \in 1..n : i /= j => listing[i] /= listing[j]
         /\ all_files_in_folder = <<AudioFilePaths[1]>> \o listing
  /\ task_book_info =
       book_info_with_files([core_book_title |-> Dune, is_multi_part |-> FALSE, part_display_name |-> None],
                            <<TagPool[1]>>)
  /\ \E below \in SUBSET {FileInSubdirectory} :
       folder_metadata = <<[physical_folder_path |-> 1, files_in_subdirectories |-> below]>>
  /\ all_source_files_found_during_scan = walked_files(1)
  /\ swept_to_leftbehind = {}
  /\ process_pending = {1}
  /\ pc = "process"
  /\ task_pc = "audio"
  /\ loop_index = 0
  /\ primary_cover_linked = FALSE
  /\ link_attempts = <<>>
  /\ prescan_pending = {}
  /\ physical_folder_metadata_results = <<>>
  /\ logical_books_for_processing = <<>>
  /\ series_max_numbers = <<>>
  /\ ambiguous_base_names = {}
  /\ pool_args_process = <<>>
  /\ process_results = <<>>
  /\ NoTextCall
  /\ NoFileSystem

\* imap_unordered yields the result of the task: every file os.walk finds under
\* the folders of the task leaves all_source_files_found_during_scan
RemoveProcessedFiles(t) ==
  /\ pc = "process"
  /\ task_pc = "returned"
  /\ t \in process_pending
  /\ process_pending' = process_pending \ {t}
  /\ all_source_files_found_during_scan' = all_source_files_found_during_scan \ walked_files(t)
  /\ UNCHANGED <<folder_metadata, pc, prescan_pending, physical_folder_metadata_results,
                 logical_books_for_processing, series_max_numbers, ambiguous_base_names,
                 pool_args_process, process_results, swept_to_leftbehind>>
  /\ UNCHANGED <<file_system_vars, placement_vars, text_vars>>

NextSweep ==
  \/ PlaceAudioFile
  \/ ListFolder
  \/ PlaceOtherFile
  \/ ReturnTask
  \/ \E t \in {1} : RemoveProcessedFiles(t)
  \/ Finish

SpecSweep == InitSweep /\ [][NextSweep]_vars

----------------------------------------------------------------------------
(* Properties *)

\* the grouper has returned
Grouped == pc /= "prescan"

\* the results that carry metadata, which are the ones the grouper keeps
ResultsWithMetadata ==
  {res \in Range(physical_folder_metadata_results) : res.combined_metadata /= NoMetadata}

\* the (key, list) items the grouper builds from the collected results
GroupItems == Range(logical_books_grouped_by_key(physical_folder_metadata_results))

\* two collected folders are put in the list of one key
InSameGroup(a, b) == \E item \in GroupItems : a \in Range(item[2]) /\ b \in Range(item[2])

\* C1: two folders whose normalized publishers differ (one of them may have no
\* publisher) are never put in the same group, even when author, series name and
\* series number are the same.
C1_DistinctPublishersDistinctGroups ==
  \A item \in GroupItems :
    \A a \in Range(item[2]) : \A b \in Range(item[2]) :
      a.combined_metadata.publisher = b.combined_metadata.publisher

\* C1 witness: the grouper has run on two folders that agree on author, series name
\* and series number, one without publisher and one with a publisher.
C1_Witness ==
  /\ Grouped
  /\ \E a \in ResultsWithMetadata : \E b \in ResultsWithMetadata :
       /\ a.combined_metadata.sanitized_author = b.combined_metadata.sanitized_author
       /\ a.combined_metadata.sanitized_series_name = b.combined_metadata.sanitized_series_name
       /\ a.combined_metadata.series_book_num_for_logic = b.combined_metadata.series_book_num_for_logic
       /\ a.combined_metadata.publisher = None
       /\ Truthy(b.combined_metadata.publisher)
       /\ ~InSameGroup(a, b)

\* C2: two folders with the same author and the same publisher, no series name and
\* no series number, but different core titles are never merged into one multi-part
\* logical book: they are not in the same group and the entries made from them are
\* not parts that share one title.
C2_DifferentCoreTitlesNotMerged ==
  Grouped =>
    \A a \in ResultsWithMetadata : \A b \in ResultsWithMetadata :
      ( /\ a.combined_metadata.sanitized_author = b.combined_metadata.sanitized_author
        /\ a.combined_metadata.publisher = b.combined_metadata.publisher
        /\ ~Truthy(a.combined_metadata.sanitized_series_name)
        /\ ~Truthy(b.combined_metadata.sanitized_series_name)
        /\ a.combined_metadata.series_book_num_for_logic = NoNumber
        /\ b.combined_metadata.series_book_num_for_logic = NoNumber
        /\ a.combined_metadata.sanitized_core_book_title_for_grouping
             /= b.combined_metadata.sanitized_core_book_title_for_grouping )
      => /\ ~InSameGroup(a, b)
         /\ \A e \in Range(logical_books_for_processing) :
              \A f \in Range(logical_books_for_processing) :
                (e.physical_folder_paths = <<a.physical_folder_path>>
                 /\ f.physical_folder_paths = <<b.physical_folder_path>>)
                => ~(e.is_multi_part /\ f.is_multi_part /\ e.core_book_title = f.core_book_title)

\* what the claim C3 compares of one entry: the title, the part label and the
\* physical folder they are attached to, with the fields of the book
EntryView(e) ==
  [author |-> e.author, series_name |-> e.series_name, series_book_num |-> e.series_book_num,
   core_book_title |-> e.core_book_title, publisher |-> e.publisher, performer |-> e.performer,
   physical_folder_paths |-> e.physical_folder_paths, is_multi_part |-> e.is_multi_part,
   part_display_name |-> e.part_display_name]

\* the collected results in another arrival order
Reordered(p) ==
  [k \in 1..Len(physical_folder_metadata_results) |-> physical_folder_metadata_results[p[k]]]

\* C3: grouping does not depend on the arrival order of the results: every ordering
\* of the collected results gives the same set of logical book entries, the same
\* series_max_numbers and the same ambiguous set.
C3_GroupingOrderIndependent ==
  Grouped =>
    \A p \in Permutations(1..Len(physical_folder_metadata_results)) :
      LET books == final_logical_books_for_processing(Reordered(p))
      IN  /\ {EntryView(e) : e \in Range(books)}
               = {EntryView(e) : e \in Range(logical_books_for_processing)}
          /\ compute_series_max_numbers(books) = series_max_numbers
          /\ compute_ambiguous_base_names(books) = ambiguous_base_names

\* C4: the run from grouping through the construction of the placement tasks ends
\* without an unhandled exception, and every entry returned by grouping is handed to
\* process_single_logical_book_or_part exactly once.
C4_EveryBookHandedToPlacement ==
  /\ pc /= "unhandled_exception"
  /\ pc \in {"process", "done"} =>
       /\ Len(pool_args_process) = Len(logical_books_for_processing)
       /\ \A k \in 1..Len(pool_args_process) :
            pool_args_process[k].logical_book_info = logical_books_for_processing[k]
  /\ pc = "done" => DOMAIN process_results = 1..Len(logical_books_for_processing)

\* the entries made from one collected folder
EntriesOf(res) ==
  {e \in Range(logical_books_for_processing) : e.physical_folder_paths = <<res.physical_folder_path>>}

\* the fields every sibling part of one book shares, by the amended claim C5
SharedView(e) ==
  [author |-> e.author, series_name |-> e.series_name, series_book_num |-> e.series_book_num,
   publisher |-> e.publisher, core_book_title |-> e.core_book_title, is_multi_part |-> e.is_multi_part]

\* the fields of an entry other than its folder, its part label and its part index
AllButFolderAndLabel(e) ==
  [author |-> e.author, series_name |-> e.series_name, series_book_num |-> e.series_book_num,
   publisher |-> e.publisher, core_book_title |-> e.core_book_title, is_multi_part |-> e.is_multi_part,
   performer |-> e.performer, book_has_embedded_image |-> e.book_has_embedded_image]

\* an entry that is not multi-part has exactly one physical folder and no part label
NonMultiPartShape ==
  \A e \in Range(logical_books_for_processing) :
    ~e.is_multi_part => Len(e.physical_folder_paths) = 1 /\ e.part_display_name = None

EntriesNamed(key) ==
  {e \in Range(logical_books_for_processing) :
     <<e.author, IF Truthy(e.series_name) THEN e.series_name ELSE e.core_book_title>> = key}

\* the (author, base name) pairs of the final entries
BaseNameKeys ==
  {<<e.author, IF Truthy(e.series_name) THEN e.series_name ELSE e.core_book_title>> :
     e \in Range(logical_books_for_processing)}

\* C6: if all entries that share an (author, base name) are sibling parts of one
\* multi-part book, that (author, base name) is not ambiguous, whatever the
\* performer tags of the part folders are.
C6_PartsNeverAmbiguousAmongThemselves ==
  Grouped =>
    \A key \in BaseNameKeys :
      ( /\ \A e \in EntriesNamed(key) : e.is_multi_part
        /\ \A e \in EntriesNamed(key) : \A f \in EntriesNamed(key) :
             <<e.author, e.series_name, e.series_book_num, e.publisher>>
               = <<f.author, f.series_name, f.series_book_num, f.publisher>> )
      => key \notin ambiguous_base_names

\* an absent or empty value counts as none
OrNone(s) == IF s = <<>> THEN None ELSE s

\* C7: an (author, base name) is in ambiguous_base_names if and only if the final
\* entries with that author and base name carry at least two distinct
\* (publisher, performer) pairs, an absent or empty value counting as none.
C7_AmbiguousIffTwoVariations ==
  Grouped =>
    /\ ambiguous_base_names \subseteq BaseNameKeys
    /\ \A key \in BaseNameKeys :
         key \in ambiguous_base_names
           <=> Cardinality({<<OrNone(e.publisher), OrNone(e.performer)>> : e \in EntriesNamed(key)}) >= 2

\* C7 witness: after grouping one (author, base name) with two entries is ambiguous
\* and another (author, base name) is not.
C7_Witness ==
  /\ Grouped
  /\ \E key \in ambiguous_base_names : Cardinality(EntriesNamed(key)) >= 2
  /\ \E key \in BaseNameKeys : key \notin ambiguous_base_names

\* the placement tasks that have run
Placed == {process_results[t] : t \in DOMAIN process_results}

\* the folder name that carries the suffix: the series folder when the book has a
\* series name, the book folder otherwise
DistinguishedFolderName(r) == r.dest_book_path[2]

IsAmbiguous(info) ==
  <<info.author, IF Truthy(info.series_name) THEN info.series_name ELSE info.core_book_title>>
    \in ambiguous_base_names

PublishedBy(name) ==
  <<" ", "(", "P", "u", "b", "l", "i", "s", "h", "e", "d", " ", "b", "y", " ">> \o name \o <<")">>

NarratedBy(name) ==
  <<" ", "(", "N", "a", "r", "r", "a", "t", "e", "d", " ", "b", "y", " ">> \o name \o <<")">>

\* the name that carries the suffix, before the suffix is appended
UndistinguishedName(info) ==
  IF Truthy(info.series_name) THEN info.series_name ELSE info.core_book_title

ExpectedDistinguisher(info) ==
  IF ~IsAmbiguous(info) THEN <<>>
  ELSE IF Truthy(info.publisher) THEN PublishedBy(normalize_publisher_name(info.publisher))
  ELSE IF Truthy(info.performer) THEN NarratedBy(normalize_publisher_name(info.performer))
  ELSE <<>>

C9_PlacementAfterCompletePrescanAndGrouping ==
  (pc \in {"process", "done"} \/ Placed /= {} \/ pool_args_process /= <<>>) =>
    /\ prescan_pending = {}
    /\ Len(physical_folder_metadata_results) = Len(folder_metadata)
    /\ Range(physical_folder_metadata_results) = Range(folder_metadata)
    /\ logical_books_for_processing =
         final_logical_books_for_processing(physical_folder_metadata_results)
    /\ series_max_numbers = compute_series_max_numbers(logical_books_for_processing)
    /\ ambiguous_base_names = compute_ambiguous_base_names(logical_books_for_processing)
    /\ \A args \in Range(pool_args_process) :
         /\ args.series_max_numbers = series_max_numbers
         /\ args.ambiguous_base_names = ambiguous_base_names
    /\ \A r \in Placed :
         /\ r.series_max_numbers = series_max_numbers
         /\ r.ambiguous_base_names = ambiguous_base_names

\* C9 witness: a run over three folders has ended with three placement tasks run,
\* a series maximum and an ambiguous pair.
C9_Witness ==
  /\ pc = "done"
  /\ Len(folder_metadata) = 3
  /\ Cardinality(Placed) = 3
  /\ series_max_numbers /= <<>>
  /\ ambiguous_base_names /= {}

\* the largest book number among the logical books of one series name
SeriesMaximum(name) ==
  Max({logical_books_for_processing[k].series_book_num :
         k \in {j \in 1..Len(logical_books_for_processing) :
                  /\ logical_books_for_processing[j].series_name = name
                  /\ logical_books_for_processing[j].series_book_num /= NoNumber}})

\* the number of decimal digits of a natural number below 1000
DecimalDigits(n) == IF n < 10 THEN 1 ELSE IF n < 100 THEN 2 ELSE 3

\* the padding width of C10 for one series name
PaddingWidth(name) ==
  IF SeriesMaximum(name) \div 10 >= 10 THEN DecimalDigits(SeriesMaximum(name) \div 10) ELSE 1

\* the integer part n written with at least w digits, by leading zeros
Padded(n, w) ==
  [k \in 1..(Max({w, DecimalDigits(n)}) - DecimalDigits(n)) |-> "0"] \o IntToStr(n)

\* the fractional suffix of a number held in tenths: '.5' for 2.5, '' for 2.0
FractionalSuffix(number) ==
  IF number % 10 = 0 THEN <<>> ELSE <<".">> \o IntToStr(number % 10)

\* C10: for a placed logical book with a series name and a book number the folder
\* prefix is the integer part zero-padded to width w, the unpadded fractional
\* suffix and ' - ', where w is 1 unless the integer part of the largest book
\* number of that series is at least 10, and then its number of decimal digits;
\* with maximum 12 the numbers 2.5 and 12 give '02.5 - ' and '12 - ', and with a
\* maximum below 10 the numbers 1 and 2.5 give '1 - ' and '2.5 - '.
C10_PrefixPaddedToSeriesMaximum ==
  \A r \in Placed :
    LET info == r.logical_book_info
    IN  (Truthy(info.series_name) /\ info.series_book_num /= NoNumber) =>
          /\ r.final_book_folder_name_prefix =
               Padded(info.series_book_num \div 10, PaddingWidth(info.series_name))
                 \o FractionalSuffix(info.series_book_num) \o <<" ", "-", " ">>
          /\ (SeriesMaximum(info.series_name) = 120 /\ info.series_book_num = 25)
               => r.final_book_folder_name_prefix = <<"0", "2", ".", "5", " ", "-", " ">>
          /\ (SeriesMaximum(info.series_name) = 120 /\ info.series_book_num = 120)
               => r.final_book_folder_name_prefix = <<"1", "2", " ", "-", " ">>
          /\ (SeriesMaximum(info.series_name) < 100 /\ info.series_book_num = 25)
               => r.final_book_folder_name_prefix = <<"2", ".", "5", " ", "-", " ">>
          /\ (SeriesMaximum(info.series_name) < 100 /\ info.series_book_num = 10)
               => r.final_book_folder_name_prefix = <<"1", " ", "-", " ">>

\* C10 witness: books 2.5 and 12 of one series have been placed, 2.5 as '02.5 - '
\* although it arrived before book 12.
C10_Witness ==
  \E r \in Placed : \E q \in Placed :
    /\ r.logical_book_info.series_name = q.logical_book_info.series_name
    /\ r.logical_book_info.series_book_num = 25
    /\ q.logical_book_info.series_book_num = 120
    /\ r.logical_book_info.physical_folder_paths[1] < q.logical_book_info.physical_folder_paths[1]
    /\ r.final_book_folder_name_prefix = <<"0", "2", ".", "5", " ", "-", " ">>

\* the sort key of C11: the extracted part number, a missing one counting as 0
PartNumberOrZero(res) ==
  IF res.combined_metadata.extracted_part_number = NoNumber
  THEN 0 ELSE res.combined_metadata.extracted_part_number

\* the 1-based position of member k of a group in the group sorted by part number,
\* members with equal numbers keeping the order of the group
SortedPosition(list, k) ==
  1 + Cardinality({j \in 1..Len(list) :
                     \/ PartNumberOrZero(list[j]) < PartNumberOrZero(list[k])
                     \/ PartNumberOrZero(list[j]) = PartNumberOrZero(list[k]) /\ j < k})

\* the label of C11 for a member at a sorted position; N is the integer part of
\* the part number
ExpectedPartLabel(res, position) ==
  LET d == res.combined_metadata.extracted_part_designation
      n == res.combined_metadata.extracted_part_number
      m == res.combined_metadata.extracted_total_parts
      w == Max({DecimalDigits(n \div 10), DecimalDigits(m)})
  IN  IF n /= NoNumber /\ m /= NoNumber
      THEN <<"(">> \o d \o <<" ">> \o Padded(n \div 10, w) \o <<" ", "o", "f", " ">>
                   \o Padded(m, w) \o <<")">>
      ELSE IF n /= NoNumber
      THEN <<"(">> \o d \o <<" ">> \o IntToStr(n \div 10) \o <<")">>
      ELSE <<"(", "P", "a", "r", "t", " ">> \o IntToStr(position) \o <<")">>

\* C11: every member of a group of two or more folders gets exactly the label
\* '({designation} N of M)' with N and M zero-padded to the larger digit width when
\* part number and total are known, '({designation} N)' when only the number is
\* known, and '(Part k)' with k its position in the group sorted by part number
\* (missing as 0) otherwise; folders named '... (Part 1 of 2)', '... (Part 2 of 2)'
\* and '... (Disc 3 of 12)' get '(Part 1 of 2)', '(Part 2 of 2)', '(Disc 03 of 12)'.
C11_PartLabels ==
  Grouped =>
    \A item \in GroupItems :
      Len(item[2]) >= 2 =>
        \A k \in 1..Len(item[2]) :
          LET res == item[2][k]
              cm  == res.combined_metadata
              lbl == <<cm.extracted_part_designation, cm.extracted_part_number,
                       cm.extracted_total_parts>>
          IN  /\ EntriesOf(res) /= {}
              /\ \A e \in EntriesOf(res) :
                   /\ e.is_multi_part
                   /\ e.part_display_name = ExpectedPartLabel(res, SortedPosition(item[2], k))
                   /\ lbl = <<Part, 10, 2>> =>
                        e.part_display_name =
                          <<"(", "P", "a", "r", "t", " ", "1", " ", "o", "f", " ", "2", ")">>
                   /\ lbl = <<Part, 20, 2>> =>
                        e.part_display_name =
                          <<"(", "P", "a", "r", "t", " ", "2", " ", "o", "f", " ", "2", ")">>
                   /\ lbl = <<Disc, 30, 12>> =>
                        e.part_display_name =
                          <<"(", "D", "i", "s", "c", " ", "0", "3", " ", "o", "f", " ", "1", "2", ")">>

\* C11 witness: grouping has made one multi-part book of the folders
\* '... (Part 1 of 2)' and '... (Part 2 of 2)', the second having arrived first.
C11_Witness ==
  /\ Grouped
  /\ \E item \in GroupItems :
       /\ Len(item[2]) = 2
       /\ item[2][1].combined_metadata.extracted_part_number = 20
       /\ item[2][2].combined_metadata.extracted_part_number = 10
       /\ \E e \in EntriesOf(item[2][1]) :
            e.part_display_name = <<"(", "P", "a", "r", "t", " ", "2", " ", "o", "f", " ", "2", ")">>

----------------------------------------------------------------------------
(* Properties of the placement of one book or part *)

\* the destination names the audio loop has tried for the audio file at position i
AudioDestNames(i) ==
  {a.dest[1] : a \in {b \in Range(link_attempts) :
                        /\ b.src = task_book_info.all_audio_files_details[i].file_path
                        /\ Len(b.dest) = 1}}

TrackWord == <<" ", "T", "r", "a", "c", "k", " ">>

\* C12: a book or part with exactly one audio file never gets a ' Track N of M' or
\* ' Track N' suffix in the destination name of that file, whatever its track and
\* TRACKTOTAL tags hold: the name is the base name followed by the extension.
C12_SingleFileNoTrackSuffix ==
  Len(task_book_info.all_audio_files_details) = 1 =>
    \A name \in AudioDestNames(1) :
      /\ ~Contains(TrackWord, name)
      /\ name = sanitize_filename(audio_file_base_name(task_book_info)
                                  \o splitext(task_book_info.all_audio_files_details[1].file_path))

\* a single audio file tagged track 1 of 3 has been linked as 'Dune.mp3'
C12_Witness ==
  /\ Len(task_book_info.all_audio_files_details) = 1
  /\ task_book_info.all_audio_files_details[1].metadata
       = [track |-> <<"1">>, TRACKTOTAL |-> <<"3">>]
  /\ ~task_book_info.is_multi_part
  /\ AudioDestNames(1) = {<<"D", "u", "n", "e", ".", "m", "p", "3">>}
  /\ task_pc = "returned"

\* the number of audio files of the part
FileCount == Len(task_book_info.all_audio_files_details)

\* the 1-based position of the audio file at index i in the path-sorted file list
PositionByPath(i) ==
  Cardinality({k \in 1..FileCount :
                 \E a \in 1..Len(AudioFilePaths) : \E b \in 1..Len(AudioFilePaths) :
                   /\ AudioFilePaths[a] = task_book_info.all_audio_files_details[k].file_path
                   /\ AudioFilePaths[b] = task_book_info.all_audio_files_details[i].file_path
                   /\ a <= b})

\* the tag-supplied track number and total of the audio file at index i
TagsOf(i) == track_tags(task_book_info.all_audio_files_details[i].metadata)

\* ' Track n of m' with both numbers written with at least w digits
TrackOf(n, m, w) ==
  TrackWord \o Padded(n, w) \o <<" ", "o", "f", " ">> \o Padded(m, w)

\* the name of the audio file at index i with the given suffix before its extension
NameWithSuffix(i, suffix) ==
  sanitize_filename(audio_file_base_name(task_book_info) \o suffix
                    \o splitext(task_book_info.all_audio_files_details[i].file_path))

\* the audio files the audio loop has handled so far
HandledAudioFiles == IF task_pc = "audio" THEN 1..loop_index ELSE 1..FileCount

\* C13 as stated: in a part with two or more audio files every destination name carries
\* ' Track n of m': the tag-supplied number and total when both parse as integers,
\* otherwise the position in the path-sorted list and the file count, both zero-padded
\* to max(2, digits of m).
C13_AlwaysTrackNOfM ==
  FileCount >= 2 =>
    \A i \in HandledAudioFiles :
      LET tagged == TagsOf(i).track_num /= NoNumber /\ TagsOf(i).track_total /= NoNumber
          n == IF tagged THEN TagsOf(i).track_num ELSE PositionByPath(i)
          m == IF tagged THEN TagsOf(i).track_total ELSE FileCount
      IN  AudioDestNames(i) = {NameWithSuffix(i, TrackOf(n, m, Max({2, DecimalDigits(m)})))}

\* the suffix the code writes: ' Track n of m' from the tags when number and total both
\* parse; ' Track n' alone when only the number parses; otherwise position and file
\* count; the width is max(2, digits of the parsed total), or max(2, digits of the file
\* count) when no total parses
ExpectedTrackSuffix(i) ==
  LET n == TagsOf(i).track_num
      m == TagsOf(i).track_total
      w == IF m /= NoNumber THEN Max({2, DecimalDigits(m)})
           ELSE Max({2, DecimalDigits(FileCount)})
  IN  IF n /= NoNumber /\ m /= NoNumber THEN TrackOf(n, m, w)
      ELSE IF n /= NoNumber THEN TrackWord \o Padded(n, w)
      ELSE TrackOf(PositionByPath(i), FileCount, w)

\* C13 (amended): in a part with two or more audio files the destination name tried for
\* every file is the sanitized base name, the suffix of ExpectedTrackSuffix and the
\* extension; tags 1, 2, 3 with total 3 give ' Track 01 of 03', ' Track 02 of 03' and
\* ' Track 03 of 03'.
C13_TrackSuffixFromTagsOrPosition ==
  FileCount >= 2 =>
    \A i \in HandledAudioFiles :
      /\ AudioDestNames(i) = {NameWithSuffix(i, ExpectedTrackSuffix(i))}
      /\ (/\ task_book_info.all_audio_files_details[i].metadata.TRACKTOTAL = <<"3">>
          /\ \E d \in 1..3 :
               task_book_info.all_audio_files_details[i].metadata.track = <<Digits[d + 1]>>)
         => \E d \in 1..3 :
              /\ task_book_info.all_audio_files_details[i].metadata.track = <<Digits[d + 1]>>
              /\ AudioDestNames(i)
                   = {NameWithSuffix(i, TrackWord \o <<"0", Digits[d + 1]>> \o <<" ", "o", "f", " ", "0", "3">>)}

\* three files tagged 1, 2, 3 of 3 were linked as 'Dune Track 01 of 03.mp3',
\* 'Dune Track 02 of 03.m4b' and 'Dune Track 03 of 03.mp3'
C13_Witness ==
  /\ FileCount = 3
  /\ task_pc = "returned"
  /\ ~task_book_info.is_multi_part
  /\ \A i \in 1..3 :
       task_book_info.all_audio_files_details[i].metadata
         = [track |-> <<Digits[i + 1]>>, TRACKTOTAL |-> <<"3">>]
  /\ AudioDestNames(1) = {<<"D", "u", "n", "e", " ", "T", "r", "a", "c", "k", " ", "0", "1", " ", "o", "f", " ", "0", "3", ".", "m", "p", "3">>}
  /\ AudioDestNames(2) = {<<"D", "u", "n", "e", " ", "T", "r", "a", "c", "k", " ", "0", "2", " ", "o", "f", " ", "0", "3", ".", "m", "4", "b">>}
  /\ AudioDestNames(3) = {<<"D", "u", "n", "e", " ", "T", "r", "a", "c", "k", " ", "0", "3", " ", "o", "f", " ", "0", "3", ".", "m", "p", "3">>}
  /\ \A a \in Range(link_attempts) : a.ok

\* the files of the listing the loop over all_files_in_folder has handled so far
HandledListing ==
  IF task_pc = "audio" THEN {}
  ELSE IF task_pc = "other" THEN 1..loop_index ELSE 1..Len(all_files_in_folder)

IsAudioName(f) == \E e \in AUDIO_EXTENSIONS : endswith(lower(f), e)

IsImageName(f) == \E e \in IMAGE_EXTENSIONS : endswith(lower(f), e)

IsPackageFileName(f) == endswith(lower(f), <<".", "o", "p", "f">>)

HasCoverKeyword(f) ==
  \/ Contains(<<"c", "o", "v", "e", "r">>, lower(f))
  \/ Contains(<<"f", "o", "l", "d", "e", "r">>, lower(f))
  \/ Contains(<<"f", "r", "o", "n", "t">>, lower(f))

IsSoleImage(f) ==
  /\ IsImageName(f)
  /\ \A k \in 1..Len(all_files_in_folder) :
       IsImageName(all_files_in_folder[k]) => all_files_in_folder[k] = f

\* the positions of link_attempts at which the file was the source
AttemptsOf(f) == {k \in 1..Len(link_attempts) : link_attempts[k].src = f}

\* the destination C19 gives a non-audio file, below the destination folder
PlacementOf(f) ==
  IF IsImageName(f) /\ (HasCoverKeyword(f) \/ IsSoleImage(f))
  THEN <<sanitize_filename(cover_image_base_name(task_book_info)) \o <<" ", "C", "o", "v", "e", "r">> \o splitext(f)>>
  ELSE IF lower(f) = <<"p", "l", "a", "y", "l", "i", "s", "t", ".", "l", "l">> THEN <<sanitize_filename(f)>>
  ELSE <<<<"E", "x", "t", "r", "a", "s">>, sanitize_filename(f)>>

----------------------------------------------------------------------------
(* Properties of the text functions *)

\* the text function of the call under study is fn, and it has returned
Called(fn) == text_input.fn = fn /\ Len(text_output) >= 1

\* C14: strip_part_info_from_title is idempotent, applying it to its own result gives
\* that result again, and for the empty text it returns the empty text.
C14_StripPartInfoIdempotent ==
  text_input.fn = "strip_part_info_from_title" =>
    /\ Len(text_output) = 2 => text_output[2] = text_output[1]
    /\ (Len(text_output) >= 1 /\ text_input.args[1] = <<>>) => text_output[1] = <<>>

\* the text occurs in every title when letter case is ignored
CommonIgnoringCase(text, titles) ==
  \A k \in 1..Len(titles) : Contains(lower(text), lower(titles[k]))

\* the substrings of the first title that occur in every title, ignoring case, and are
\* more than white space
CommonSubstringsIgnoringCase(titles) ==
  {u \in {SubSeq(titles[1], a, b) : a \in 1..Len(titles[1]), b \in 1..Len(titles[1])} :
     strip(u) /= <<>> /\ CommonIgnoringCase(u, titles)}

\* C15: the shared title of a group of two or more folders is the longest text that
\* occurs, ignoring case, in every member's part-stripped title, in the casing of the
\* first title; 'The Way of Kings Part 1' and 'The Way of Kings Part 2' share
\* 'The Way of Kings'.
C15_SharedTitleLongestIgnoringCase ==
  Called("shared_book_title") =>
    LET titles == text_output[1].titles_for_common_substring
        shared == text_output[1].shared_book_title
    IN  /\ CommonSubstringsIgnoringCase(titles) /= {} =>
             /\ Contains(shared, titles[1])
             /\ CommonIgnoringCase(shared, titles)
             /\ \A u \in CommonSubstringsIgnoringCase(titles) : Len(strip(u)) <= Len(shared)
        /\ text_input.args = <<<<"T", "h", "e", " ", "W", "a", "y", " ", "o", "f", " ", "K", "i", "n", "g", "s", " ", "P", "a", "r", "t", " ", "1">>,
                               <<"T", "h", "e", " ", "W", "a", "y", " ", "o", "f", " ", "K", "i", "n", "g", "s", " ", "P", "a", "r", "t", " ", "2">>>>
             => shared = <<"T", "h", "e", " ", "W", "a", "y", " ", "o", "f", " ", "K", "i", "n", "g", "s">>

\* '(N of M)' or '(NofM)' as C16 reads it: the word 'of' stands between the numbers
NumberOfTotal ==
  Lit(<<"(">>) \o <<Open(1)>> \o NumberPattern \o <<Close(1), Star(<<WhitespaceClass>>)>>
  \o Lit(<<"o", "f">>) \o <<Star(<<WhitespaceClass>>), Open(2)>> \o Plus(<<DigitClass>>)
  \o <<Close(2)>> \o Lit(<<")">>)

\* the result C16 gives for a folder name
PartInfoByFirstForm(folder_name) ==
  LET designated == re_search(patterns[1], folder_name)
      counted    == re_search(NumberOfTotal, folder_name)
      single     == re_search(patterns[3], folder_name)
  IN  IF designated.ok
      THEN [part_designation |-> IF Truthy(group(designated, folder_name, 1))
                                 THEN capitalize(group(designated, folder_name, 1))
                                 ELSE <<"P", "a", "r", "t">>,
            part_number      |-> float(group(designated, folder_name, 2)),
            total_parts      |-> int(group(designated, folder_name, 3))]
      ELSE IF counted.ok
      THEN [part_designation |-> <<"P", "a", "r", "t">>,
            part_number      |-> float(group(counted, folder_name, 1)),
            total_parts      |-> int(group(counted, folder_name, 2))]
      ELSE IF single.ok
      THEN [part_designation |-> <<"P", "a", "r", "t">>,
            part_number      |-> float(group(single, folder_name, 1)),
            total_parts      |-> NoNumber]
      ELSE [part_designation |-> None, part_number |-> NoNumber, total_parts |-> NoNumber]

\* C16: the first of the forms '(D N of M)', '(N of M)' or '(NofM)', '(N)' found in
\* the folder name decides: (D, N, M), ('Part', N, M), ('Part', N, none) for every
\* number N of one or more digits; a name with none of them gives (none, none, none).
C16_FirstMatchingPatternDecides ==
  Called("extract_internal_part_info") =>
    text_output[1] = PartInfoByFirstForm(text_input.args[1])

\* candidate c is present and pattern p matches it
SeriesMatch(candidates, c, p) ==
  Truthy(candidates[c]) /\ re_match(series_patterns[p], strip(candidates[c])).ok

\* C17: extract_series_info leaves by no exception, whatever grouping, album and title
\* are (absent, empty or a text), and returns (none, none) when no pattern matches any
\* of the three candidates.
C17_SeriesInfoNeverRaises ==
  Called("extract_series_info") =>
    /\ text_output[1].exception = None
    /\ (\A c \in 1..3 : \A p \in 1..Len(series_patterns) : ~SeriesMatch(text_input.args, c, p))
         => /\ text_output[1].series_name = None
            /\ text_output[1].series_book_num = NoNumber

\* grouping absent, album empty, title 'Dune': nothing matches and (none, none) came back
C17_Witness ==
  /\ Called("extract_series_info")
  /\ text_input.args = <<None, <<>>, <<"D", "u", "n", "e">>>>
  /\ text_output[1] = [series_name |-> None, series_book_num |-> NoNumber, exception |-> None]

\* the matches that yield a non-empty name, as (candidate, pattern) pairs
NamedMatches(candidates) ==
  {cp \in (1..3) \X (1..Len(series_patterns)) :
     /\ SeriesMatch(candidates, cp[1], cp[2])
     /\ strip(group(re_match(series_patterns[cp[2]], strip(candidates[cp[1]])),
                    strip(candidates[cp[1]]), 1)) /= <<>>}

\* the first of them: candidates in the order grouping, album, title, and for one
\* candidate the patterns in their listed order
FirstNamedMatch(candidates) ==
  CHOOSE cp \in NamedMatches(candidates) :
    \A other \in NamedMatches(candidates) :
      cp[1] < other[1] \/ (cp[1] = other[1] /\ cp[2] <= other[2])

\* C18: when some match yields a non-empty name, the first such match wins: the series
\* name is the cleaned name of that match and the book number is the number of that
\* match, whatever later candidates and patterns hold; grouping '3', album 'Saga #2',
\* title 'Emma 4' give ('Saga', 2.0).
C18_FirstNamedMatchWins ==
  (Called("extract_series_info") /\ NamedMatches(text_input.args) /= {}) =>
    LET cp   == FirstNamedMatch(text_input.args)
        text == strip(text_input.args[cp[1]])
        won  == re_match(series_patterns[cp[2]], text)
    IN  /\ text_output[1] = series_result(strip(group(won, text, 1)), float(group(won, text, 2)))
        /\ text_input.args = <<<<"3">>, <<"S", "a", "g", "a", " ", "#", "2">>, <<"E", "m", "m", "a", " ", "4">>>>
             => /\ text_output[1].series_name = <<"S", "a", "g", "a">>
                /\ text_output[1].series_book_num = 20

\* grouping '3' matched with an empty name, album 'Saga #2' gave the name and number
C18_Witness ==
  /\ Called("extract_series_info")
  /\ text_input.args = <<<<"3">>, <<"S", "a", "g", "a", " ", "#", "2">>, <<"E", "m", "m", "a", " ", "4">>>>
  /\ FirstNamedMatch(text_input.args) = <<2, 1>>
  /\ text_output[1] = [series_name |-> <<"S", "a", "g", "a">>, series_book_num |-> 20, exception |-> None]

----------------------------------------------------------------------------
(* Properties of the sweep *)

\* the physical folders whose pre-scan recovered no metadata
FoldersWithoutMetadata ==
  {i \in DOMAIN folder_metadata : folder_metadata[i].combined_metadata = NoMetadata}

\* the run is over: it reached its end or left by an exception
RunEnded == pc \in {"done", "unhandled_exception"}

\* C20: a folder whose combined metadata is absent contributes no entry to the output
\* of grouping, and at the end of the run every file of that folder has been handed to
\* the leftbehind sweep.
C20_FoldersWithoutMetadataSwept ==
  \A i \in FoldersWithoutMetadata :
    /\ Grouped =>
         \A e \in Range(logical_books_for_processing) :
           folder_metadata[i].physical_folder_path \notin Range(e.physical_folder_paths)
    /\ RunEnded => source_files(folder_metadata[i].physical_folder_path) \subseteq swept_to_leftbehind

----------------------------------------------------------------------------
(* Properties of the destination directory *)

\* the prefix of the book folder: the padded number and ' - ' for a book with
\* series name and number, nothing otherwise
ExpectedFolderPrefix(info) ==
  IF Truthy(info.series_name) /\ info.series_book_num /= NoNumber
  THEN Padded(info.series_book_num \div 10, PaddingWidth(info.series_name))
         \o FractionalSuffix(info.series_book_num) \o <<" ", "-", " ">>
  ELSE <<>>

\* author folder, series folder when there is a series name, book folder
\* (the suffix of an ambiguous name goes to the series folder, or to the book
\* folder when there is no series)
ExpectedBookFolders(info) ==
  IF Truthy(info.series_name)
  THEN <<info.author,
         info.series_name \o ExpectedDistinguisher(info),
         ExpectedFolderPrefix(info) \o info.core_book_title>>
  ELSE <<info.author,
         ExpectedFolderPrefix(info) \o info.core_book_title \o ExpectedDistinguisher(info)>>

\* a label '(...)' without its first and last character
WithoutOuterParentheses(label) == SubSeq(label, 2, Len(label) - 1)

----------------------------------------------------------------------------
(* Properties of the naming functions *)

\* C22: for every input string, sanitize_filename returns a string that contains
\* none of the characters < > : " / \ | ? *, has no leading or trailing space or
\* dot, and is at most 200 characters long.
C22_SanitizedNameIsClean ==
  Called("sanitize_filename") =>
    LET name == text_output[1]
    IN  /\ \A k \in 1..Len(name) : name[k] \notin {"<", ">", ":", "\"", "/", "\\", "|", "?", "*"}
        /\ name /= <<>> => (name[1] \notin {" ", "."} /\ name[Len(name)] \notin {" ", "."})
        /\ Len(name) <= 200

\* the extension of a path: its last dot and what follows it
ExtensionOf(path) ==
  SubSeq(path, Max({k \in 1..Len(path) : path[k] = "."}), Len(path))

\* C23: every destination audio file name ends with the extension of its source
\* file, for every core title, part label and track suffix, also when the name is
\* long enough to be cut by the length cap.
C23_AudioNameKeepsExtension ==
  Called("final_audio_file_name") =>
    LET source    == text_input.args[1].all_audio_files_details[text_input.args[2]].file_path
        extension == ExtensionOf(source)
        name      == text_output[1]
    IN  /\ Len(name) >= Len(extension)
        /\ SubSeq(name, Len(name) - Len(extension) + 1, Len(name)) = extension

\* C25: normalize_publisher_name returns the canonical name of a table key for
\* every input whose lower-cased trimmed form equals that key, 'Audible' for
\* 'Audible Studios' and for 'audible', and applied to its own output it returns
\* that output again.
C25_PublisherNormalization ==
  text_input.fn = "normalize_publisher_name" =>
    /\ Len(text_output) >= 1 =>
         /\ \A k \in 1..Len(replacements) :
              (Truthy(text_input.args[1]) /\ lower(strip(text_input.args[1])) = replacements[k][1])
                => text_output[1] = replacements[k][2]
         /\ text_input.args[1] \in {<<"A", "u", "d", "i", "b", "l", "e", " ", "S", "t", "u", "d", "i", "o", "s">>, <<"a", "u", "d", "i", "b", "l", "e">>} => text_output[1] = Audible
    /\ Len(text_output) = 2 => text_output[2] = text_output[1]

\* the raw title of a folder: title tag, else album tag, else folder name
RawTitle(tags, folder_name) ==
  IF Truthy(tags.title) THEN strip(tags.title)
  ELSE IF Truthy(tags.album) THEN strip(tags.album)
  ELSE folder_name

\* C24: for every folder record the author, the core title and, when present, the
\* series name are non-empty strings; an absent artist gives 'Unknown Author', and
\* a title emptied by the stripping of part information falls back to the title
\* with series information stripped, and then to the raw title.
C24_PathComponentsNonEmpty ==
  Called("logical_book_fields") =>
    LET tags   == text_input.args[1]
        fields == text_output[1]
        raw    == RawTitle(tags, text_input.args[2])
        series_stripped == strip_series_info_from_title(raw, fields.sanitized_series_name,
                                                        fields.series_book_num_for_logic)
    IN  /\ Truthy(fields.sanitized_author)
        /\ Truthy(fields.sanitized_core_book_title_for_grouping)
        /\ fields.sanitized_series_name /= None => fields.sanitized_series_name /= <<>>
        /\ ~Truthy(tags.artist) => fields.sanitized_author = <<"U", "n", "k", "n", "o", "w", "n", " ", "A", "u", "t", "h", "o", "r">>
        /\ strip_part_info_from_title(series_stripped) = <<>> =>
             fields.sanitized_core_book_title_for_grouping =
               sanitize_filename(IF series_stripped /= <<>> THEN series_stripped ELSE raw)

\* an entry of the file system that lies below the source root
UnderSourceRoot(e) == Len(e) > Len(Resolve(SOURCE_ROOT_DIR)) /\ IsAtOrBelow(e, Resolve(SOURCE_ROOT_DIR))

\* the calls the step under way adds to file_system_calls
NewCalls == {file_system_calls'[k] : k \in (Len(file_system_calls) + 1)..Len(file_system_calls')}

\* C26: no step of a run deletes or rewrites a file or directory below the source
\* root: every entry below the source root is still there after the step, no file
\* below it that exists is opened for writing, and the trees removed are those of
\* the destination and of the leftbehind directory only
C26_SourceTreeUntouched ==
  [][/\ \A e \in file_system : UnderSourceRoot(e) => e \in file_system'
     /\ \A c \in NewCalls :
          /\ c.call = "open_w" /\ Resolve(c.path) \in file_system => ~UnderSourceRoot(Resolve(c.path))
          /\ c.call = "rmtree" => c.path \in {DEST_BASE_DIR, LEFTBEHIND_BASE_DIR}]_vars

\* the os.link calls made by the loop over the audio files of the task
AudioLinkAttempts ==
  {k \in DOMAIN link_attempts : link_attempts[k].src \in Range(AudioFilePaths)}

\* C27: within one logical book or part, two different source audio files get
\* different destination file names, whatever their track tags are, and no audio
\* link fails because the name is taken
C27_AudioNamesDistinct ==
  /\ \A i \in AudioLinkAttempts : \A j \in AudioLinkAttempts :
       link_attempts[i].src /= link_attempts[j].src => link_attempts[i].dest /= link_attempts[j].dest
  /\ \A i \in AudioLinkAttempts : link_attempts[i].ok

\* entries i and j of logical_books_for_processing are parts of one multi-part book
SiblingParts(i, j) ==
  LET a == logical_books_for_processing[i]
      b == logical_books_for_processing[j]
  IN  /\ i /= j
      /\ a.is_multi_part /\ b.is_multi_part
      /\ \E item \in GroupItems :
            \E m \in DOMAIN item[2] : \E n \in DOMAIN item[2] :
              /\ item[2][m].physical_folder_path = a.physical_folder_paths[1]
              /\ item[2][n].physical_folder_path = b.physical_folder_paths[1]

\* C28: the parts of one multi-part book have pairwise different part labels and
\* pairwise different part folders, whatever part numbers were extracted
C28_SiblingPartLabelsDistinct ==
  \A i \in DOMAIN logical_books_for_processing : \A j \in DOMAIN logical_books_for_processing :
    SiblingParts(i, j) =>
      /\ logical_books_for_processing[i].part_display_name /= logical_books_for_processing[j].part_display_name
      /\ dest_book_path(logical_books_for_processing[i], series_max_numbers, ambiguous_base_names)
           /= dest_book_path(logical_books_for_processing[j], series_max_numbers, ambiguous_base_names)

\* the key under which the grouper collected the folders of an entry
LogicalBookKey(e) == <<e.author, e.series_name, e.series_book_num, e.publisher>>

\* C30: two logical books with different (author, series name, series number,
\* publisher) keys never get the same destination directory
C30_DifferentKeysDifferentDestinations ==
  \A i \in DOMAIN logical_books_for_processing : \A j \in DOMAIN logical_books_for_processing :
    LogicalBookKey(logical_books_for_processing[i]) /= LogicalBookKey(logical_books_for_processing[j]) =>
      dest_book_path(logical_books_for_processing[i], series_max_numbers, ambiguous_base_names)
        /= dest_book_path(logical_books_for_processing[j], series_max_numbers, ambiguous_base_names)

\* the files found during the scan under the selected folder
FilesFoundUnderFolder == walked_files(1)

\* an os.link into the organized tree, or a call of hard_link_to_leftbehind, was
\* made for the file
LinkAttempted(file) ==
  \/ \E k \in DOMAIN link_attempts : link_attempts[k].src = file[2]
  \/ file \in swept_to_leftbehind

\* C29: at the end of a completed run every file found under a selected folder
\* during the scan has had a hard link attempted, into the organized tree or into
\* the leftbehind directory
C29_EveryScannedFileAttempted ==
  pc = "done" => \A file \in FilesFoundUnderFolder : LinkAttempted(file)

====
